---- MODULE Spec2Model ----
\* Model of the Fulloch inference service (src/core/api_service.py):
\* the FullochService object shared by concurrent request threads, its
\* lazily loaded ASR / SLM / TTS backends, its six locks, and the chat,
\* transcription and speech handlers stepping through their code (Spec);
\* of the HTTP handlers of src/api/server.py handling one request (SpecHttp);
\* and of the message normalization and the pattern matcher as functions
\* applied to inputs from bounded sets (SpecPure).
EXTENDS Integers, Sequences, FiniteSets, TLC

\* ---------------------------------------------------------------- bounds
NumThreads == 2      \* concurrent request threads
MaxRequests == 3     \* service calls started over a run
MaxLoadFails == 1    \* failing load attempts over a run
MaxFairRequests == 2 \* service calls started over a run with fair scheduling

Threads == 1..NumThreads
Backends == {"ASR", "SLM", "TTS"}
None == "None"            \* Python None where a handle or a name is expected
NoneText == <<"None">>    \* Python None where a text is expected

\* ---------------------------------------------------------------- state
VARIABLES
    use_ai, use_tiny_tts,                         \* configuration flags
    asr_pipe,                                     \* self._asr_pipe
    slm_model, grammar, intent_prompt, chat_prompt,
    tts_synthesize, remove_emoji, set_voice, voice_prompt, active_voice,
    lock,                                         \* the six threading.Lock objects
    pc, op, loc,                                  \* per-thread position, call, locals
    result,                                       \* per-thread outcome of the last call
    loadCalls, loadDone, loadFailed,              \* per-backend load history
    nreq,                                         \* service calls started so far
    http,                                         \* the HTTP request in the server's handlers
    pure                                          \* the function under evaluation and its input

cfgVars == <<use_ai, use_tiny_tts>>
edgeVars == <<http, pure>>
asrVars == <<asr_pipe>>
slmVars == <<slm_model, grammar, intent_prompt, chat_prompt>>
ttsVars == <<tts_synthesize, remove_emoji, set_voice, voice_prompt, active_voice>>
histVars == <<loadCalls, loadDone, loadFailed>>
vars == <<use_ai, use_tiny_tts, asr_pipe, slm_model, grammar, intent_prompt,
          chat_prompt, tts_synthesize, remove_emoji, set_voice, voice_prompt,
          active_voice, lock, pc, op, loc, result, loadCalls, loadDone,
          loadFailed, nreq, http, pure>>

\* FullochService.__init__: the three load locks and the three inference locks
Locks == {"asr_load", "slm_load", "tts_load", "asr_infer", "slm_infer", "tts_infer"}

\* general.voice_clone default
voice_clone == "cori"

\* variant: every _ensure_* function takes the ASR load lock
LoadLockOf_shared(b) == "asr_load"

\* which lock each _ensure_* function takes
LoadLockOf(b) ==
    CASE b = "ASR" -> "asr_load"
      [] b = "SLM" -> "slm_load"
      [] b = "TTS" -> "tts_load"

\* which lock each service call takes around inference
InferLockOf(b) ==
    CASE b = "ASR" -> "asr_infer"
      [] b = "SLM" -> "slm_infer"
      [] b = "TTS" -> "tts_infer"

\* the backend a service call works on
CapOf(o) ==
    CASE o = "transcribe" -> "ASR"
      [] o = "chat" -> "SLM"
      [] o = "speech" -> "TTS"
      [] OTHER -> None

\* the first test of each _ensure_* function (the attribute it looks at)
Loaded(b) ==
    CASE b = "ASR" -> asr_pipe # None
      [] b = "SLM" -> slm_model # None
      [] b = "TTS" -> tts_synthesize # None

\* thread-local values at the start of a call
NoIntent == [intent |-> "none", args |-> <<>>]
NoLocals == [messages |-> <<>>, user_prompt |-> NoneText, caught |-> NoIntent,
             pattern_answer |-> NoneText, model_answer |-> NoneText, route |-> None, gen |-> 0, stage |-> "start",
             payload |-> NoneText, messages_for_chat |-> <<>>, delivered |-> <<>>,
             cleaned_text |-> NoneText, voice |-> None, requested_voice |-> None,
             voice_before |-> None, switch |-> "none",
             fallback_voice |-> None, tries |-> <<>>]
NoResult == [kind |-> "none", val |-> NoneText, via |-> None]

\* a float: NaN, or a number given in hundredths
Num(v) == [nan |-> FALSE, v |-> v]
NaN == [nan |-> TRUE, v |-> 0]

\* no HTTP request is in the handlers
\* (body: the fields of a request body, with the values of the fields an
\* endpoint does not read; out: no response has been built)
NoHttp ==
    [pc |-> "idle", key |-> "", endpoint |-> "None", scheme |-> "None", token |-> "",
     body |-> [messages |-> <<>>, input |-> [kind |-> "absent", text |-> <<>>, items |-> <<>>],
               stream |-> FALSE, upload |-> "none", response_format |-> "",
               language |-> "None", text |-> <<>>, voice |-> "alloy", speed |-> Num(100)],
     status |-> 0, calls |-> <<>>, decode |-> <<>>, encode |-> <<>>,
     id |-> 0, answer |-> <<"None">>, chunks |-> <<>>,
     out |-> [kind |-> "none", id |-> 0, text |-> <<"None">>, task |-> "None",
              language |-> "None", duration |-> FALSE, media_type |-> "None"]]

\* no function is under evaluation
NoPure == [fn |-> "none", messages |-> <<>>, normalized |-> <<>>, utterance |-> <<"None">>,
           text |-> <<"None">>,
           caught |-> [dict |-> FALSE, intent |-> "none", args |-> <<>>, text |-> <<"None">>],
           registry |-> [tools |-> [n \in {"f", "g", "x", "y"} |-> "None"],
                         aliases |-> [n \in {"f", "g", "x", "y"} |-> "None"],
                         regs |-> <<>>, asked |-> "None",
                         out |-> [fn |-> "None", by |-> "None"]],
           tool |-> [name |-> "None", caller |-> "None",
                     ret |-> [kind |-> "none", text |-> <<"None">>],
                     answer |-> <<"None">>],
           audio |-> [arr |-> [ndim |-> 1, dtype |-> "float32", frames |-> <<>>],
                      mono |-> [ndim |-> 1, dtype |-> "float32", samples |-> <<>>],
                      size |-> 0, sample_rate |-> 0, prepared |-> 0]]

\* FullochService.__init__, with no HTTP request in the handlers and no
\* function applied
Init ==
    /\ use_ai \in BOOLEAN
    /\ use_tiny_tts \in BOOLEAN
    /\ asr_pipe = None
    /\ slm_model = None /\ grammar = None
    /\ intent_prompt = NoneText /\ chat_prompt = NoneText
    /\ tts_synthesize = None /\ remove_emoji = None /\ set_voice = None
    /\ voice_prompt = None /\ active_voice = voice_clone
    /\ lock = [l \in Locks |-> 0]
    /\ pc = [t \in Threads |-> "idle"]
    /\ op = [t \in Threads |-> "none"]
    /\ loc = [t \in Threads |-> NoLocals]
    /\ result = [t \in Threads |-> NoResult]
    /\ loadCalls = [b \in Backends |-> 0]
    /\ loadDone = [b \in Backends |-> 0]
    /\ loadFailed = [b \in Backends |-> 0]
    /\ nreq = 0
    /\ http = NoHttp /\ pure = NoPure

\* ------------------------------------------------------------ lock steps
\* variant: an acquire that does not wait for the holder
Acquire_nowait(t, l) == lock' = [lock EXCEPT ![l] = t]

\* threading.Lock.acquire: blocks while the lock is held
Acquire(t, l) ==
    /\ lock[l] = 0
    /\ lock' = [lock EXCEPT ![l] = t]

\* threading.Lock.release at the end of a with block
Release(t, l) == lock' = [lock EXCEPT ![l] = 0]

\* a call ends by raising: the error reaches the caller of the service
Raise(t, e) ==
    /\ pc' = [pc EXCEPT ![t] = "done"]
    /\ result' = [result EXCEPT ![t] = [kind |-> "error", val |-> NoneText, via |-> e]]

\* a call ends by returning the text or audio v, produced on path via
Return(t, k, v, via) ==
    /\ pc' = [pc EXCEPT ![t] = "done"]
    /\ result' = [result EXCEPT ![t] = [kind |-> k, val |-> v, via |-> via]]

\* a failing load is drawn only while the backend's failure budget lasts
MayFailLoad(b) == loadFailed[b] < MaxLoadFails

\* ------------------------------------------------------------------ text
\* A text is a sequence of tokens.  "a" and "b" are ordinary characters, " "
\* and "nl" (a newline) are whitespace, "q" is a double quote, "s" an asterisk, "e" an emoji, "<" and
\* ">" are the <think> and </think> markers, "U" is the substring
\* "User question:", "J" is a JSON {intent, args} object, "N" is a JSON value
\* that is no such object (an object without intent, a list).  "play", "stop"
\* and the other words of the commands are whole words, "PLAY" and "STOP"
\* their upper-case spellings; consecutive words are separated by one blank.
IsText(x) == x # NoneText

\* the whitespace tokens: a blank and a newline
Space == {" ", "nl"}

RECURSIVE LStrip(_)
LStrip(s) == IF s # <<>> /\ Head(s) \in Space THEN LStrip(Tail(s)) ELSE s

RECURSIVE RStrip(_)
RStrip(s) == IF s # <<>> /\ s[Len(s)] \in Space THEN RStrip(SubSeq(s, 1, Len(s) - 1)) ELSE s

\* str.strip()
Strip(s) == RStrip(LStrip(s))

\* str.replace(c, "") for every c in cs
Without(s, cs) == SelectSeq(s, LAMBDA c : c \notin cs)

\* str.strip('"')
RECURSIVE LStripQ(_)
LStripQ(s) == IF s # <<>> /\ Head(s) = "q" THEN LStripQ(Tail(s)) ELSE s

RECURSIVE RStripQ(_)
RStripQ(s) == IF s # <<>> /\ s[Len(s)] = "q" THEN RStripQ(SubSeq(s, 1, Len(s) - 1)) ELSE s

StripQuotes(s) == RStripQ(LStripQ(s))

\* "User question:" in answer
HasMarker(s) == \E i \in 1..Len(s) : s[i] = "U"

\* position of the first token c in s at or after i, 0 if there is none
RECURSIVE Find(_, _, _)
Find(s, c, i) == IF i > Len(s) THEN 0 ELSE IF s[i] = c THEN i ELSE Find(s, c, i + 1)

\* re.sub(r"<think>.*?</think>", "", text, flags=re.DOTALL)
RECURSIVE RemoveThink(_)
RemoveThink(s) ==
    LET i == Find(s, "<", 1)
        j == IF i = 0 THEN 0 ELSE Find(s, ">", i + 1)
    IN IF i = 0 \/ j = 0 THEN s
       ELSE SubSeq(s, 1, i - 1) \o RemoveThink(SubSeq(s, j + 1, Len(s)))

\* tts_tiny.remove_emoji
RemoveEmojiFn(text, rem_think) ==
    LET t1 == IF rem_think THEN Strip(RemoveThink(text)) ELSE text
    IN Without(t1, {"e"})

\* FullochService._clean_text when self._remove_emoji is emoji_fn
CleanText(text, remove_think, emoji_fn) ==
    IF text = NoneText THEN <<>>
    ELSE LET value == Strip(Without(text, {"q", "s"}))
         IN IF value = <<>> THEN <<>>
            ELSE IF emoji_fn # None
                 THEN Strip(RemoveEmojiFn(value, remove_think))
                 ELSE value

\* FullochService._clean_text, reading the current self._remove_emoji
clean_text(text, remove_think) == CleanText(text, remove_think, remove_emoji)

\* --------------------------------------------------------- collaborators
\* str.lower() on a word
LowerWord(w) ==
    CASE w = "PLAY" -> "play"
      [] w = "STOP" -> "stop"
      [] OTHER -> w

\* str.lower()
Lower(s) == [i \in 1..Len(s) |-> LowerWord(s[i])]

\* what catchAll returns: a dict {intent, args} or a string
IntentDict(intent, args) == [dict |-> TRUE, intent |-> intent, args |-> args, text |-> NoneText]
Echo(text) == [dict |-> FALSE, intent |-> "none", args |-> <<>>, text |-> text]

\* utils.intent_catch.catchAll: a structured intent for a command, the input
\* text itself otherwise.  The commands are those of its extract helpers:
\* play X; stop, pause, halt; skip; resume; the time queries;
\* start|set [a] timer [for] D [please]; get timer(s).
catchAll(text) ==
    LET u == Strip(text)
        \* the rest of s after the word w, s itself if it does not begin with w
        SkipWord(s, w) == IF s # <<>> /\ LowerWord(Head(s)) = w THEN Tail(s) ELSE s
        extract_after_play ==
            IF u # <<>> /\ LowerWord(Head(u)) = "play" /\ Strip(Tail(u)) # <<>>
            THEN Strip(Tail(u)) ELSE NoneText
        extract_stop == Lower(u) \in {<<"stop">>, <<"pause">>, <<"halt">>}
        extract_skip == Lower(u) = <<"skip">>
        extract_resume == Lower(u) = <<"resume">>
        has_time_query ==
            Lower(u) \in {<<"what", "time", "is", "it">>, <<"whats", "the", "time">>}
        extract_timer ==
            LET verb == u # <<>> /\ LowerWord(Head(u)) \in {"start", "set"}
                r1 == IF verb THEN SkipWord(Tail(u), "a") ELSE <<>>
                r2 == IF r1 # <<>> /\ LowerWord(Head(r1)) = "timer"
                      THEN SkipWord(Tail(r1), "for") ELSE <<>>
                d == IF r2 # <<>> /\ LowerWord(r2[Len(r2)]) = "please"
                     THEN SubSeq(r2, 1, Len(r2) - 1) ELSE r2
            IN IF Strip(d) # <<>> THEN Strip(d) ELSE NoneText
        list_timers == Lower(u) \in {<<"get", "timer">>, <<"get", "timers">>}
    IN IF extract_after_play # NoneText THEN IntentDict("play_song", <<extract_after_play>>)
       ELSE IF extract_stop THEN IntentDict("pause", <<>>)
       ELSE IF extract_skip THEN IntentDict("skip", <<>>)
       ELSE IF extract_resume THEN IntentDict("resume", <<>>)
       ELSE IF has_time_query THEN IntentDict("get_time", <<>>)
       ELSE IF extract_timer # NoneText THEN IntentDict("start_countdown", <<extract_timer>>)
       ELSE IF list_timers THEN IntentDict("list_timers", <<>>)
       ELSE Echo(text)

\* _run_intent_pipeline: "isinstance(caught, dict)", NoIntent for a string
AsIntent(caught) ==
    IF caught.dict THEN [intent |-> caught.intent, args |-> caught.args] ELSE NoIntent

\* texts intents.handle_intent can hand back (None when it has no answer)
ToolAnswers == {NoneText, <<>>, <<" ">>, <<"a">>, <<"U", "a">>, <<"q", "s">>,
                <<"q", "<", ">", "a", "q">>}

\* texts the language model can produce
ModelOutputs == {<<>>, <<"q", "q">>, <<"a">>, <<" ", "q", "J", "q">>, <<"N">>}

\* json.loads succeeds on the payload
IsJson(payload) == payload \in {<<"J">>, <<"N">>}

\* A message content is a string, a list of parts, None, or another value
\* (given by its str()).  A part is a string, a dict with a type and a text,
\* or another value.
Str(x) == [kind |-> "str", text |-> x, parts |-> <<>>]
PartList(ps) == [kind |-> "list", text |-> <<>>, parts |-> ps]
DictPart(ty, x) == [kind |-> "dict", type |-> ty, text |-> x]

\* conversations a chat request can carry
Conversations ==
    { <<>>,
      <<[role |-> "system", content |-> Str(<<"a">>)], [role |-> "user", content |-> Str(<<" ">>)]>>,
      <<[role |-> "user", content |-> Str(<<"play", "a">>)]>>,
      <<[role |-> "user", content |-> Str(<<" ", "a">>)]>>,
      <<[role |-> "system", content |-> Str(<<"a">>)], [role |-> "user", content |-> Str(<<"a">>)],
        [role |-> "assistant", content |-> Str(<<"a">>)]>> }

\* str(...).strip().lower() on the type of a content part
PartType(ty) ==
    CASE ty = " Text " -> "text"
      [] OTHER -> ty

\* "\n".join(parts)
RECURSIVE JoinLines(_)
JoinLines(texts) ==
    IF texts = <<>> THEN <<>>
    ELSE IF Len(texts) = 1 THEN Head(texts)
    ELSE Head(texts) \o <<"nl">> \o JoinLines(Tail(texts))

\* _message_content_to_text, the loop over the parts of a list content
RECURSIVE PartTexts(_)
PartTexts(ps) ==
    IF ps = <<>> THEN <<>>
    ELSE LET part == Head(ps)
             value == Strip(part.text)
             kept == \/ part.kind = "str"
                     \/ part.kind = "dict"
                        /\ PartType(part.type) \in {"text", "input_text", "output_text"}
         IN (IF kept /\ value # <<>> THEN <<value>> ELSE <<>>) \o PartTexts(Tail(ps))

\* variant: a string content is taken as it is
_message_content_to_text_untrimmed(content) ==
    CASE content.kind = "str" -> content.text
      [] content.kind = "list" -> Strip(JoinLines(PartTexts(content.parts)))
      [] content.kind = "none" -> <<>>
      [] OTHER -> Strip(content.text)

\* _message_content_to_text
_message_content_to_text(content) ==
    CASE content.kind = "str" -> Strip(content.text)
      [] content.kind = "list" -> Strip(JoinLines(PartTexts(content.parts)))
      [] content.kind = "none" -> <<>>
      [] OTHER -> Strip(content.text)

\* str(message.get("role", "user")).strip() or "user"; "absent" is a message
\* without role
RoleOf(role) ==
    CASE role = "absent" -> "user"
      [] role = "" -> "user"
      [] role = " " -> "user"
      [] role = " user " -> "user"
      [] OTHER -> role

\* _normalize_messages
RECURSIVE _normalize_messages(_)
_normalize_messages(messages) ==
    IF messages = <<>> THEN <<>>
    ELSE LET m == Head(messages)
             role == RoleOf(m.role)
             content == _message_content_to_text(m.content)
         IN (IF content # <<>> THEN <<[role |-> role, content |-> content]>> ELSE <<>>)
            \o _normalize_messages(Tail(messages))

\* _latest_user_message
RECURSIVE _latest_user_message(_)
_latest_user_message(messages) ==
    IF messages = <<>> THEN <<>>
    ELSE LET m == messages[Len(messages)]
         IN IF m.role = "user" /\ m.content # <<>> THEN m.content
            ELSE _latest_user_message(SubSeq(messages, 1, Len(messages) - 1))

\* fixed texts of chat
NeedUserMessage == <<"need_user_message">>
ChatDisabled == <<"chat_disabled">>
CouldNotGenerate == <<"could_not_generate">>

\* ------------------------------------------------------------ the calls
Ops == {"transcribe", "chat", "speech"}

Goto(t, p) == pc' = [pc EXCEPT ![t] = p] /\ UNCHANGED result

SetLoc(t, f, v) == loc' = [loc EXCEPT ![t][f] = v]

svcVars == <<asr_pipe, slm_model, grammar, intent_prompt, chat_prompt,
             tts_synthesize, remove_emoji, set_voice, voice_prompt, active_voice>>

\* a request thread enters transcribe_audio, chat or synthesize_speech
Start(t) ==
    /\ pc[t] \in {"idle", "done"}
    /\ nreq < MaxRequests
    /\ \E o \in Ops :
         /\ op' = [op EXCEPT ![t] = o]
         /\ pc' = [pc EXCEPT ![t] = IF o = "chat" THEN "chat_begin" ELSE "ensure"]
    /\ loc' = [loc EXCEPT ![t] = NoLocals]
    /\ result' = [result EXCEPT ![t] = NoResult]
    /\ nreq' = nreq + 1
    /\ UNCHANGED <<cfgVars, edgeVars, svcVars, lock, histVars>>

\* where a call continues once its _ensure_* call has returned
AfterEnsure(t) ==
    CASE op[t] = "transcribe" -> "asr_acquire"
      [] op[t] = "speech" -> "tts_clean"
      [] op[t] = "chat" /\ loc[t].route = "intent" -> "intent_acquire"
      [] op[t] = "chat" /\ loc[t].route = "conv" -> "conv_build"

\* first statement of the load body of each _ensure_* function
LoadBody(b) ==
    CASE b = "ASR" -> "asr_load"
      [] b = "SLM" -> "slm_load"
      [] b = "TTS" -> "tts_import"

\* _ensure_*: the unlocked test "if self._x is not None: return"
EnsureFast(t) ==
    /\ pc[t] = "ensure"
    /\ Goto(t, IF Loaded(CapOf(op[t])) THEN AfterEnsure(t) ELSE "load_acquire")
    /\ UNCHANGED <<cfgVars, edgeVars, svcVars, lock, op, loc, histVars, nreq>>

\* variant: the load body is entered without taking the load lock
LoadAcquire_unlocked(t) ==
    /\ pc[t] = "load_acquire"
    /\ Goto(t, "load_recheck")
    /\ UNCHANGED <<cfgVars, edgeVars, svcVars, lock, op, loc, histVars, nreq>>

\* _ensure_*: "with self._x_load_lock:"
LoadAcquire(t) ==
    /\ pc[t] = "load_acquire"
    /\ Acquire(t, LoadLockOf(CapOf(op[t])))
    /\ Goto(t, "load_recheck")
    /\ UNCHANGED <<cfgVars, edgeVars, svcVars, op, loc, histVars, nreq>>

\* variant: no second test under the load lock
LoadRecheck_always(t) ==
    LET b == CapOf(op[t]) IN
    /\ pc[t] = "load_recheck"
    /\ Goto(t, LoadBody(b))
    /\ loadCalls' = [loadCalls EXCEPT ![b] = @ + 1]
    /\ UNCHANGED <<lock, loadDone, loadFailed>>
    /\ UNCHANGED <<cfgVars, edgeVars, svcVars, op, loc, nreq>>

\* _ensure_*: the test repeated under the load lock
LoadRecheck(t) ==
    LET b == CapOf(op[t]) IN
    /\ pc[t] = "load_recheck"
    /\ IF Loaded(b)
       THEN /\ Release(t, LoadLockOf(b))
            /\ Goto(t, AfterEnsure(t))
            /\ UNCHANGED histVars
       ELSE /\ Goto(t, LoadBody(b))
            /\ loadCalls' = [loadCalls EXCEPT ![b] = @ + 1]
            /\ UNCHANGED <<lock, loadDone, loadFailed>>
    /\ UNCHANGED <<cfgVars, edgeVars, svcVars, op, loc, nreq>>

\* variant: the load body raises and the load lock stays held
LoadRaise_holding(t, b) ==
    /\ MayFailLoad(b)
    /\ loadFailed' = [loadFailed EXCEPT ![b] = @ + 1]
    /\ Raise(t, "LoadError")
    /\ UNCHANGED <<lock, loadCalls, loadDone>>

\* the load body raises: the with block releases the lock, the call fails
LoadRaise(t, b) ==
    /\ MayFailLoad(b)
    /\ Release(t, LoadLockOf(b))
    /\ loadFailed' = [loadFailed EXCEPT ![b] = @ + 1]
    /\ Raise(t, "LoadError")
    /\ UNCHANGED <<loadCalls, loadDone>>

\* variant: _ensure_* returns with the load lock still held
LoadFinish_holding(t, b) ==
    /\ loadDone' = [loadDone EXCEPT ![b] = @ + 1]
    /\ Goto(t, AfterEnsure(t))
    /\ UNCHANGED <<lock, loadCalls, loadFailed>>

\* the load body runs to its end: the lock is released, _ensure_* returns
LoadFinish(t, b) ==
    /\ Release(t, LoadLockOf(b))
    /\ loadDone' = [loadDone EXCEPT ![b] = @ + 1]
    /\ Goto(t, AfterEnsure(t))
    /\ UNCHANGED <<loadCalls, loadFailed>>

\* _ensure_asr: import and "self._asr_pipe = load_asr_model()"
AsrLoad(t) ==
    /\ pc[t] = "asr_load"
    /\ \/ /\ asr_pipe' = "pipe"
          /\ LoadFinish(t, "ASR")
       \/ /\ LoadRaise(t, "ASR")
          /\ UNCHANGED asr_pipe
    /\ UNCHANGED <<cfgVars, edgeVars, slmVars, ttsVars, op, loc, nreq>>

\* transcribe_audio: "with self._asr_infer_lock:"
AsrAcquire(t) ==
    /\ pc[t] = "asr_acquire"
    /\ Acquire(t, InferLockOf("ASR"))
    /\ Goto(t, "asr_infer")
    /\ UNCHANGED <<cfgVars, edgeVars, svcVars, op, loc, histVars, nreq>>

\* transcribe_audio: the pipeline call returns or raises, the lock is released
AsrInfer(t) ==
    /\ pc[t] = "asr_infer"
    /\ Release(t, InferLockOf("ASR"))
    /\ \/ Return(t, "text", <<"a">>, "asr")
       \/ Raise(t, "InferenceError")
    /\ UNCHANGED <<cfgVars, edgeVars, svcVars, op, loc, histVars, nreq>>

\* ------------------------------------------------------------- SLM load
\* _ensure_slm: "self._grammar, self._slm_model = load_slm()"
SlmLoad(t) ==
    /\ pc[t] = "slm_load"
    /\ \/ /\ grammar' = "json_grammar"
          /\ slm_model' = "llama"
          /\ Goto(t, "slm_intent_prompt")
          /\ UNCHANGED <<lock, histVars>>
       \/ /\ LoadRaise(t, "SLM")
          /\ UNCHANGED <<grammar, slm_model>>
    /\ UNCHANGED <<cfgVars, edgeVars, asrVars, intent_prompt, chat_prompt, ttsVars, op, loc, nreq>>

\* _ensure_slm: "self._intent_prompt = getIntentSystemPrompt()", which reads
\* intent_examples.txt and the tool registry and can raise
SlmIntentPrompt(t) ==
    /\ pc[t] = "slm_intent_prompt"
    /\ \/ /\ intent_prompt' = <<"intent_prompt">>
          /\ Goto(t, "slm_chat_prompt")
          /\ UNCHANGED <<lock, histVars>>
       \/ /\ LoadRaise(t, "SLM")
          /\ UNCHANGED intent_prompt
    /\ UNCHANGED <<cfgVars, edgeVars, asrVars, slm_model, grammar, chat_prompt, ttsVars, op, loc, nreq>>

\* _ensure_slm: "self._chat_prompt = getChatSystemPrompt()" and the end of the with block
SlmChatPrompt(t) ==
    /\ pc[t] = "slm_chat_prompt"
    /\ chat_prompt' = <<"persona">>
    /\ LoadFinish(t, "SLM")
    /\ UNCHANGED <<cfgVars, edgeVars, asrVars, slm_model, grammar, intent_prompt, ttsVars, op, loc, nreq>>

\* ----------------------------------------------------------------- chat
\* variant: the model route is taken whatever use_ai says
SkipModelRoute_never == FALSE

\* _run_intent_pipeline: "if not self.use_ai: return None"
SkipModelRoute == ~use_ai

\* chat: "if not self.use_ai: return <disabled text>"
ConversationDisabled == ~use_ai

\* variant: the pattern route never returns the tool's answer
PatternResolves_never(answer) == FALSE

\* _run_intent_pipeline, pattern route: "isinstance(answer, str) and answer.strip()"
PatternResolves(answer) == IsText(answer) /\ Strip(answer) # <<>>

\* _run_intent_pipeline, model route: the answer is a non-blank string without the marker
ModelResolves(answer) == IsText(answer) /\ Strip(answer) # <<>> /\ ~HasMarker(answer)

\* chat after _run_intent_pipeline returned None, with locals l
PipelineNone(t, l) ==
    IF ConversationDisabled
    THEN /\ Return(t, "text", ChatDisabled, "disabled")
         /\ loc' = [loc EXCEPT ![t] = [l EXCEPT !.stage = "unresolved"]]
    ELSE /\ Goto(t, "ensure")
         /\ loc' = [loc EXCEPT ![t] = [l EXCEPT !.stage = "unresolved", !.route = "conv"]]

\* _run_intent_pipeline after the pattern route did not resolve, with locals l
ModelRoute(t, l) ==
    IF SkipModelRoute
    THEN PipelineNone(t, l)
    ELSE /\ Goto(t, "ensure")
         /\ loc' = [loc EXCEPT ![t] = [l EXCEPT !.route = "intent"]]

\* variant: chat runs the pipeline whether or not there is a user message
ChatBegin_unguarded(t) ==
    /\ pc[t] = "chat_begin"
    /\ \E msgs \in Conversations :
         LET normalized_messages == _normalize_messages(msgs)
             user_prompt == _latest_user_message(normalized_messages)
         IN /\ Goto(t, "pipeline")
            /\ loc' = [loc EXCEPT ![t].messages = normalized_messages,
                                  ![t].user_prompt = user_prompt]
    /\ UNCHANGED <<cfgVars, edgeVars, svcVars, lock, op, histVars, nreq>>

\* chat: normalize the messages, find the latest user message
ChatBegin(t) ==
    /\ pc[t] = "chat_begin"
    /\ \E msgs \in Conversations :
         LET normalized_messages == _normalize_messages(msgs)
             user_prompt == _latest_user_message(normalized_messages)
         IN IF user_prompt = <<>>
            THEN /\ Return(t, "text", NeedUserMessage, "guidance")
                 /\ loc' = [loc EXCEPT ![t].messages = normalized_messages]
            ELSE /\ Goto(t, "pipeline")
                 /\ loc' = [loc EXCEPT ![t].messages = normalized_messages,
                                       ![t].user_prompt = user_prompt]
    /\ UNCHANGED <<cfgVars, edgeVars, svcVars, lock, op, histVars, nreq>>

\* variant: the model route is entered before the pattern matcher has run
RunIntentPipeline_modelFirst(t) ==
    /\ pc[t] = "pipeline"
    /\ Goto(t, "ensure")
    /\ loc' = [loc EXCEPT ![t].route = "intent"]
    /\ UNCHANGED <<cfgVars, edgeVars, svcVars, lock, op, histVars, nreq>>

\* _run_intent_pipeline: "caught = catchAll(user_prompt)"
RunIntentPipeline(t) ==
    /\ pc[t] = "pipeline"
    /\ LET caught == AsIntent(catchAll(loc[t].user_prompt))
           l == [loc[t] EXCEPT !.caught = caught, !.stage = "matched"]
       IN IF caught # NoIntent
          THEN /\ Goto(t, "dispatch1")
               /\ loc' = [loc EXCEPT ![t] = l]
          ELSE ModelRoute(t, l)
    /\ UNCHANGED <<cfgVars, edgeVars, svcVars, lock, op, histVars, nreq>>

\* variant: the pattern route's answer is returned without _clean_text
Dispatch1_raw(t) ==
    /\ pc[t] = "dispatch1"
    /\ \/ \E answer \in ToolAnswers :
            LET l == [loc[t] EXCEPT !.pattern_answer = answer] IN
            IF PatternResolves(answer)
            THEN /\ Return(t, "text", answer, "pattern")
                 /\ loc' = [loc EXCEPT ![t] = [l EXCEPT !.stage = "resolved"]]
            ELSE ModelRoute(t, l)
       \/ /\ Raise(t, "ToolError")
          /\ UNCHANGED loc
    /\ UNCHANGED <<cfgVars, edgeVars, svcVars, lock, op, histVars, nreq>>

\* _run_intent_pipeline: "answer = intents.handle_intent(caught)" on a pattern hit
Dispatch1(t) ==
    /\ pc[t] = "dispatch1"
    /\ \/ \E answer \in ToolAnswers :
            LET l == [loc[t] EXCEPT !.pattern_answer = answer] IN
            IF PatternResolves(answer)
            THEN /\ Return(t, "text", clean_text(answer, TRUE), "pattern")
                 /\ loc' = [loc EXCEPT ![t] = [l EXCEPT !.stage = "resolved"]]
            ELSE ModelRoute(t, l)
       \/ /\ Raise(t, "ToolError")
          /\ UNCHANGED loc
    /\ UNCHANGED <<cfgVars, edgeVars, svcVars, lock, op, histVars, nreq>>

\* generate_slm: the messages it hands to create_chat_completion
GenerateSlmMessages(system_prompt, user_prompt) ==
    <<[role |-> "system", content |-> system_prompt],
      [role |-> "user", content |-> user_prompt]>>

\* _run_intent_pipeline: "with self._slm_infer_lock:" and the call of generate_slm
IntentAcquire(t) ==
    /\ pc[t] = "intent_acquire"
    /\ Acquire(t, InferLockOf("SLM"))
    /\ Goto(t, "intent_gen")
    /\ loc' = [loc EXCEPT ![t].gen = @ + 1,
                          ![t].delivered = GenerateSlmMessages(intent_prompt, loc[t].user_prompt)]
    /\ UNCHANGED <<cfgVars, edgeVars, svcVars, op, histVars, nreq>>

\* _run_intent_pipeline: generate_slm returns or raises, the lock is released,
\* the payload is stripped and parsed; the local payload lives until
\* _run_intent_pipeline returns
IntentGen(t) ==
    /\ pc[t] = "intent_gen"
    /\ Release(t, InferLockOf("SLM"))
    /\ \/ \E ai_intent \in ModelOutputs :
            LET payload == StripQuotes(Strip(ai_intent))
            IN IF payload = <<>> \/ ~IsJson(payload)
               THEN PipelineNone(t, loc[t])
               ELSE /\ Goto(t, "dispatch2")
                    /\ SetLoc(t, "payload", payload)
       \/ /\ Raise(t, "InferenceError")
          /\ UNCHANGED loc
    /\ UNCHANGED <<cfgVars, edgeVars, svcVars, op, histVars, nreq>>

\* _run_intent_pipeline: "answer = intents.handle_intent(parsed)" and the tests after it
Dispatch2(t) ==
    /\ pc[t] = "dispatch2"
    /\ \/ \E answer \in ToolAnswers :
            LET l == [loc[t] EXCEPT !.model_answer = answer, !.payload = NoneText] IN
            IF ModelResolves(answer)
            THEN /\ Return(t, "text", clean_text(answer, TRUE), "model")
                 /\ loc' = [loc EXCEPT ![t] = [l EXCEPT !.stage = "resolved"]]
            ELSE PipelineNone(t, l)
       \/ /\ Raise(t, "ToolError")
          /\ SetLoc(t, "payload", NoneText)
    /\ UNCHANGED <<cfgVars, edgeVars, svcVars, lock, op, histVars, nreq>>

\* parameters of generate_slm
GenerateSlmParams == {"slm_model", "user_prompt", "grammar", "system_prompt",
                      "max_new_tokens", "temperature"}

\* arguments chat passes to generate_slm
ChatCallArgs == {"slm_model", "user_prompt", "messages", "temperature", "max_new_tokens"}

\* chat: build messages_for_chat, injecting self._chat_prompt when no system message is there
ConvBuild(t) ==
    /\ pc[t] = "conv_build"
    /\ LET m == loc[t].messages
           messages_for_chat ==
               IF \E i \in 1..Len(m) : m[i].role = "system" THEN m
               ELSE <<[role |-> "system", content |-> chat_prompt]>> \o m
       IN loc' = [loc EXCEPT ![t].messages_for_chat = messages_for_chat]
    /\ Goto(t, "conv_acquire")
    /\ UNCHANGED <<cfgVars, edgeVars, svcVars, lock, op, histVars, nreq>>

\* chat: "with self._slm_infer_lock:" and the call of generate_slm
ConvAcquire(t) ==
    /\ pc[t] = "conv_acquire"
    /\ Acquire(t, InferLockOf("SLM"))
    /\ Goto(t, "conv_gen")
    /\ loc' = [loc EXCEPT ![t].gen = IF ChatCallArgs \subseteq GenerateSlmParams THEN @ + 1 ELSE @,
                          ![t].delivered = IF ChatCallArgs \subseteq GenerateSlmParams
                                           THEN GenerateSlmMessages(NoneText, loc[t].user_prompt)
                                           ELSE <<>>]
    /\ UNCHANGED <<cfgVars, edgeVars, svcVars, op, histVars, nreq>>

\* chat: the call of generate_slm ends (a TypeError when an argument is not a
\* parameter), the lock is released, the answer is cleaned
ConvGen(t) ==
    /\ pc[t] = "conv_gen"
    /\ Release(t, InferLockOf("SLM"))
    /\ IF ChatCallArgs \subseteq GenerateSlmParams
       THEN \/ \E answer \in ModelOutputs :
                 LET cleaned == clean_text(answer, TRUE) IN
                 Return(t, "text", IF cleaned # <<>> THEN cleaned ELSE CouldNotGenerate, "conv")
            \/ Raise(t, "InferenceError")
       ELSE Raise(t, "TypeError")
    /\ UNCHANGED <<cfgVars, edgeVars, svcVars, op, loc, histVars, nreq>>

\* ------------------------------------------------------------- TTS load
\* _ensure_tts: the import of core.tts_tiny or core.tts, which builds the model
TtsImport(t) ==
    /\ pc[t] = "tts_import"
    /\ \/ /\ Goto(t, IF use_tiny_tts THEN "tiny_synthesize" ELSE "full_remove_emoji")
          /\ UNCHANGED <<lock, histVars>>
       \/ LoadRaise(t, "TTS")
    /\ UNCHANGED <<cfgVars, edgeVars, svcVars, op, loc, nreq>>

\* _ensure_tts, Kokoro: "self._tts_synthesize = synthesize"
TinySynthesize(t) ==
    /\ pc[t] = "tiny_synthesize"
    /\ tts_synthesize' = "synthesize"
    /\ Goto(t, "tiny_remove_emoji")
    /\ UNCHANGED <<cfgVars, edgeVars, asrVars, slmVars, remove_emoji, set_voice, voice_prompt,
                   active_voice, lock, op, loc, histVars, nreq>>

\* _ensure_tts, Kokoro: "self._remove_emoji = remove_emoji", then _set_voice
\* and _voice_prompt are set to None
TinyRemoveEmoji(t) ==
    /\ pc[t] = "tiny_remove_emoji"
    /\ remove_emoji' = "remove_emoji"
    /\ set_voice' = None
    /\ voice_prompt' = None
    /\ Goto(t, "tiny_active_voice")
    /\ UNCHANGED <<cfgVars, edgeVars, asrVars, slmVars, tts_synthesize, active_voice,
                   lock, op, loc, histVars, nreq>>

\* _ensure_tts, Kokoro: "self._active_voice = 'af_bella'" and the end of the with block
TinyActiveVoice(t) ==
    /\ pc[t] = "tiny_active_voice"
    /\ active_voice' = "af_bella"
    /\ LoadFinish(t, "TTS")
    /\ UNCHANGED <<cfgVars, edgeVars, asrVars, slmVars, tts_synthesize, remove_emoji, set_voice,
                   voice_prompt, op, loc, nreq>>

\* _ensure_tts, Qwen3: "self._remove_emoji = remove_emoji"
FullRemoveEmoji(t) ==
    /\ pc[t] = "full_remove_emoji"
    /\ remove_emoji' = "remove_emoji"
    /\ Goto(t, "full_synthesize")
    /\ UNCHANGED <<cfgVars, edgeVars, asrVars, slmVars, tts_synthesize, set_voice, voice_prompt,
                   active_voice, lock, op, loc, histVars, nreq>>

\* _ensure_tts, Qwen3: "self._tts_synthesize = synthesize"
FullSynthesize(t) ==
    /\ pc[t] = "full_synthesize"
    /\ tts_synthesize' = "synthesize"
    /\ Goto(t, "full_set_voice")
    /\ UNCHANGED <<cfgVars, edgeVars, asrVars, slmVars, remove_emoji, set_voice, voice_prompt,
                   active_voice, lock, op, loc, histVars, nreq>>

\* _ensure_tts, Qwen3: "self._set_voice = set_voice"
FullSetVoice(t) ==
    /\ pc[t] = "full_set_voice"
    /\ set_voice' = "set_voice"
    /\ Goto(t, "full_voice_prompt")
    /\ UNCHANGED <<cfgVars, edgeVars, asrVars, slmVars, tts_synthesize, remove_emoji, voice_prompt,
                   active_voice, lock, op, loc, histVars, nreq>>

\* _ensure_tts, Qwen3: "self._voice_prompt = self._set_voice(self.voice_clone)"
FullVoicePrompt(t) ==
    /\ pc[t] = "full_voice_prompt"
    /\ \/ /\ voice_prompt' = voice_clone
          /\ Goto(t, "full_active_voice")
          /\ UNCHANGED <<lock, histVars>>
       \/ /\ LoadRaise(t, "TTS")
          /\ UNCHANGED voice_prompt
    /\ UNCHANGED <<cfgVars, edgeVars, asrVars, slmVars, tts_synthesize, remove_emoji, set_voice,
                   active_voice, op, loc, nreq>>

\* _ensure_tts, Qwen3: "self._active_voice = self.voice_clone"
FullActiveVoice(t) ==
    /\ pc[t] = "full_active_voice"
    /\ active_voice' = voice_clone
    /\ Goto(t, "full_warmup")
    /\ UNCHANGED <<cfgVars, edgeVars, asrVars, slmVars, tts_synthesize, remove_emoji, set_voice,
                   voice_prompt, lock, op, loc, histVars, nreq>>

\* _ensure_tts, Qwen3: "warmup_model(self._voice_prompt)" and the end of the with block
FullWarmup(t) ==
    /\ pc[t] = "full_warmup"
    /\ \/ LoadFinish(t, "TTS")
       \/ LoadRaise(t, "TTS")
    /\ UNCHANGED <<cfgVars, edgeVars, svcVars, op, loc, nreq>>

\* --------------------------------------------------------------- speech
OPENAI_STYLE_VOICES == {"alloy", "echo", "fable", "onyx", "nova", "shimmer"}

\* voices a speech request can name (None: no voice given)
RequestedVoices == {None, "", " emma ", "emma", "Alloy", "nova", "cori"}

\* texts a speech request can carry
SpeechTexts == {<<"a">>, <<"q", " ">>, <<"e">>}

\* str.strip() on a voice name
VoiceStrip(v) == IF v = " emma " THEN "emma" ELSE v

\* str.lower() on a voice name
VoiceLower(v) == IF v = "Alloy" THEN "alloy" ELSE v

\* Python's "a or b"
Or(a, b) == IF a \in {None, ""} THEN b ELSE a

\* synthesize_speech: clean the text; empty text returns one zero sample
TtsClean(t) ==
    /\ pc[t] = "tts_clean"
    /\ \E text \in SpeechTexts :
         LET cleaned_text == clean_text(text, FALSE) IN
         IF cleaned_text = <<>>
         THEN /\ Return(t, "audio", <<"zeros">>, "empty")
              /\ UNCHANGED loc
         ELSE /\ Goto(t, "tts_resolve")
              /\ SetLoc(t, "cleaned_text", cleaned_text)
    /\ UNCHANGED <<cfgVars, edgeVars, svcVars, lock, op, histVars, nreq>>

\* synthesize_speech: resolve the requested voice
TtsResolve(t) ==
    /\ pc[t] = "tts_resolve"
    /\ \E voice \in RequestedVoices :
         LET given == VoiceStrip(Or(voice, ""))
             named == IF given = "" THEN Or(active_voice, voice_clone) ELSE given
             requested_voice ==
                 IF VoiceLower(named) \in OPENAI_STYLE_VOICES
                 THEN (IF use_tiny_tts THEN "af_bella" ELSE Or(active_voice, voice_clone))
                 ELSE named
         IN loc' = [loc EXCEPT ![t].voice = voice, ![t].requested_voice = requested_voice]
    /\ Goto(t, "tts_acquire")
    /\ UNCHANGED <<cfgVars, edgeVars, svcVars, lock, op, histVars, nreq>>

\* synthesize_speech: "with self._tts_infer_lock:"
TtsAcquire(t) ==
    /\ pc[t] = "tts_acquire"
    /\ Acquire(t, InferLockOf("TTS"))
    /\ Goto(t, "tts_switch")
    /\ UNCHANGED <<cfgVars, edgeVars, svcVars, op, loc, histVars, nreq>>

\* variant: the active voice is assigned before set_voice is called, so a
\* failed switch leaves the requested voice as the active one
TtsSwitch_assignFirst(t) ==
    /\ pc[t] = "tts_switch"
    /\ LET l == [loc[t] EXCEPT !.voice_before = active_voice] IN
       IF ~use_tiny_tts /\ loc[t].requested_voice # "" /\ loc[t].requested_voice # active_voice
       THEN \/ /\ set_voice # None
               /\ voice_prompt' = loc[t].requested_voice
               /\ Goto(t, "tts_switch_active")
               /\ loc' = [loc EXCEPT ![t] = l]
               /\ UNCHANGED active_voice
            \/ /\ Goto(t, "tts_synth")
               /\ loc' = [loc EXCEPT ![t] = [l EXCEPT !.switch = "failed"]]
               /\ active_voice' = loc[t].requested_voice
               /\ UNCHANGED voice_prompt
       ELSE /\ Goto(t, "tts_synth")
            /\ loc' = [loc EXCEPT ![t] = l]
            /\ UNCHANGED <<voice_prompt, active_voice>>
    /\ UNCHANGED <<cfgVars, edgeVars, asrVars, slmVars, tts_synthesize, remove_emoji, set_voice,
                   lock, op, histVars, nreq>>

\* synthesize_speech: the voice switch "self._voice_prompt = self._set_voice(requested_voice)";
\* an exception (also the TypeError of calling None) is logged and dropped
TtsSwitch(t) ==
    /\ pc[t] = "tts_switch"
    /\ LET l == [loc[t] EXCEPT !.voice_before = active_voice] IN
       IF ~use_tiny_tts /\ loc[t].requested_voice # "" /\ loc[t].requested_voice # active_voice
       THEN \/ /\ set_voice # None
               /\ voice_prompt' = loc[t].requested_voice
               /\ Goto(t, "tts_switch_active")
               /\ loc' = [loc EXCEPT ![t] = l]
            \/ /\ Goto(t, "tts_synth")
               /\ loc' = [loc EXCEPT ![t] = [l EXCEPT !.switch = "failed"]]
               /\ UNCHANGED voice_prompt
       ELSE /\ Goto(t, "tts_synth")
            /\ loc' = [loc EXCEPT ![t] = l]
            /\ UNCHANGED voice_prompt
    /\ UNCHANGED <<cfgVars, edgeVars, asrVars, slmVars, tts_synthesize, remove_emoji, set_voice,
                   active_voice, lock, op, histVars, nreq>>

\* synthesize_speech: "self._active_voice = requested_voice"
TtsSwitchActive(t) ==
    /\ pc[t] = "tts_switch_active"
    /\ active_voice' = loc[t].requested_voice
    /\ Goto(t, "tts_synth")
    /\ SetLoc(t, "switch", "ok")
    /\ UNCHANGED <<cfgVars, edgeVars, asrVars, slmVars, tts_synthesize, remove_emoji, set_voice,
                   voice_prompt, lock, op, histVars, nreq>>

\* variant: a failed first call is retried whatever the fallback voice is
TtsSynth_alwaysRetry(t) ==
    /\ pc[t] = "tts_synth"
    /\ LET try == [voice |-> loc[t].requested_voice, prompt |-> voice_prompt,
                   active |-> active_voice]
           fallback_voice == Or(active_voice, voice_clone)
           l == [loc[t] EXCEPT !.tries = Append(@, try)]
       IN \/ /\ Release(t, InferLockOf("TTS"))
             /\ Return(t, "audio", <<"audio">>, "first")
             /\ loc' = [loc EXCEPT ![t] = l]
          \/ /\ Goto(t, "tts_retry")
             /\ loc' = [loc EXCEPT ![t] = [l EXCEPT !.fallback_voice = fallback_voice]]
             /\ UNCHANGED lock
    /\ UNCHANGED <<cfgVars, edgeVars, svcVars, op, histVars, nreq>>

\* synthesize_speech: the first self._tts_synthesize call; on an exception the
\* fallback voice is read and the call is repeated unless it is the same voice
TtsSynth(t) ==
    /\ pc[t] = "tts_synth"
    /\ LET try == [voice |-> loc[t].requested_voice, prompt |-> voice_prompt,
                   active |-> active_voice]
           fallback_voice == Or(active_voice, voice_clone)
           l == [loc[t] EXCEPT !.tries = Append(@, try)]
       IN \/ /\ Release(t, InferLockOf("TTS"))
             /\ Return(t, "audio", <<"audio">>, "first")
             /\ loc' = [loc EXCEPT ![t] = l]
          \/ IF loc[t].requested_voice = fallback_voice
             THEN /\ Release(t, InferLockOf("TTS"))
                  /\ Raise(t, "InferenceError")
                  /\ loc' = [loc EXCEPT ![t] = [l EXCEPT !.fallback_voice = fallback_voice]]
             ELSE /\ Goto(t, "tts_retry")
                  /\ loc' = [loc EXCEPT ![t] = [l EXCEPT !.fallback_voice = fallback_voice]]
                  /\ UNCHANGED lock
    /\ UNCHANGED <<cfgVars, edgeVars, svcVars, op, histVars, nreq>>

\* synthesize_speech: the retry with the fallback voice, then the end of the with block
TtsRetry(t) ==
    /\ pc[t] = "tts_retry"
    /\ LET try == [voice |-> loc[t].fallback_voice, prompt |-> voice_prompt,
                   active |-> active_voice]
       IN loc' = [loc EXCEPT ![t].tries = Append(@, try)]
    /\ Release(t, InferLockOf("TTS"))
    /\ \/ Return(t, "audio", <<"audio">>, "retry")
       \/ Raise(t, "InferenceError")
    /\ UNCHANGED <<cfgVars, edgeVars, svcVars, op, histVars, nreq>>

\* ------------------------------------------------------- specification
Step(t) ==
    \/ Start(t)
    \/ EnsureFast(t) \/ LoadAcquire(t) \/ LoadRecheck(t)
    \/ AsrLoad(t) \/ AsrAcquire(t) \/ AsrInfer(t)
    \/ SlmLoad(t) \/ SlmIntentPrompt(t) \/ SlmChatPrompt(t)
    \/ ChatBegin(t) \/ RunIntentPipeline(t) \/ Dispatch1(t)
    \/ IntentAcquire(t) \/ IntentGen(t) \/ Dispatch2(t)
    \/ ConvBuild(t) \/ ConvAcquire(t) \/ ConvGen(t)
    \/ TtsImport(t) \/ TinySynthesize(t) \/ TinyRemoveEmoji(t) \/ TinyActiveVoice(t)
    \/ FullRemoveEmoji(t) \/ FullSynthesize(t) \/ FullSetVoice(t)
    \/ FullVoicePrompt(t) \/ FullActiveVoice(t) \/ FullWarmup(t)
    \/ TtsClean(t) \/ TtsResolve(t) \/ TtsAcquire(t) \/ TtsSwitch(t)
    \/ TtsSwitchActive(t) \/ TtsSynth(t) \/ TtsRetry(t)

Next == \E t \in Threads : Step(t)

Spec == Init /\ [][Next]_vars

\* A request that has entered a service method keeps being scheduled: the
\* interpreter switches between runnable threads, and every load, tool and
\* inference call returns or raises. Whether a new request arrives is left
\* open.
Continue(t) ==
    /\ pc[t] \notin {"idle", "done"}
    /\ Step(t)

\* the runs of the service with at most MaxFairRequests requests
FairNext == Next /\ nreq' <= MaxFairRequests

SpecFair == Init /\ [][FairNext]_vars /\ \A t \in Threads : WF_vars(Continue(t) /\ FairNext)

\* ----------------------------------------------- the service behind HTTP
\* create_app declares every handler "async def", and a handler calls
\* service.chat, service.transcribe_audio or service.synthesize_speech
\* directly, without await: uvicorn.run serves the app on one event loop,
\* and the loop's thread runs the service call of handler t to its end
\* before any other handler is started or resumed.
Handler(t) ==
    /\ \A u \in Threads \ {t} : pc[u] \in {"idle", "done"}
    /\ Step(t)

LoopNext == \E t \in Threads : Handler(t)

SpecLoop == Init /\ [][LoopNext]_vars

\* -------------------------------------------------------- HTTP surface
\* the routes of create_app
Endpoints == {"health", "models", "chat_completions", "responses",
              "transcriptions", "translations", "speech"}

\* the routes declared with dependencies=[Depends(require_api_key)]
Guarded == {"models", "chat_completions", "responses", "transcriptions",
            "translations", "speech"}

\* str.lower() on an authorization scheme
SchemeLower(sc) == IF sc = "Bearer" THEN "bearer" ELSE sc

\* HTTPBearer(auto_error=False): the credentials, None when the header is
\* missing, has no token or is not a bearer header
auth_scheme(sc, tok) ==
    IF sc = None \/ tok = "" \/ SchemeLower(sc) # "bearer" THEN None ELSE "credentials"

\* require_api_key: TRUE when the request may proceed
require_api_key(configured_key, sc, tok) ==
    IF configured_key = "" THEN TRUE
    ELSE IF auth_scheme(sc, tok) = None \/ SchemeLower(sc) # "bearer" THEN FALSE
    ELSE tok = configured_key

\* texts service.chat can return
ChatAnswers == {<<>>, <<"a">>, <<"a", "b">>}

\* a request arrives: FastAPI routes it, resolving the route's dependencies first
HttpReceive ==
    /\ http.pc = "idle"
    /\ LET \* Authorization headers: none, or a scheme and a token
           Schemes == {None, "Bearer", "bearer", "Basic"}
           Tokens == {"", "good", "bad"}
           \* the input field of /v1/responses: a string, a list of items, absent
           StrInput(x) == [kind |-> "str", text |-> x, items |-> <<>>]
           ListInput(items) == [kind |-> "list", text |-> <<>>, items |-> items]
           MessageItem(r, c) == [kind |-> "message", role |-> r, content |-> c]
           InputTextItem(x) == [kind |-> "input_text", role |-> "None", content |-> Str(x)]
           OtherItem == [kind |-> "other", role |-> "None", content |-> [kind |-> "none", text |-> <<>>, parts |-> <<>>]]
           ResponsesInputs ==
               { NoHttp.body.input,
                 StrInput(<<>>), StrInput(<<"play", "a">>),
                 ListInput(<<MessageItem("system", Str(<<"a">>)),
                             MessageItem("user", PartList(<<DictPart("input_text", <<"a">>)>>))>>),
                 ListInput(<<InputTextItem(<<"a">>), OtherItem, InputTextItem(<<"b">>)>>),
                 ListInput(<<OtherItem>>),
                 [kind |-> "other", text |-> <<>>, items |-> <<>>] }
           \* uploaded files: no bytes, a file soundfile reads, a file only
           \* ffmpeg reads, bytes that are no audio
           Uploads == {"empty", "wav", "m4a", "garbage"}
           \* response_format of a transcription and of a speech request
           TranscriptFormats == {"", "json", "text", "verbose_json", " Verbose_JSON ", "srt"}
           SpeechFormats == {"", " ", "mp3", " MP3 ", "pcm", "wav", "wave", "flac", "aac",
                             "opus", "ogg"}
           \* speeds of a speech request, in hundredths
           Speeds == {Num(0 - 100), Num(0), Num(24), Num(25), Num(26), Num(100), Num(399),
                      Num(400), Num(401), Num(1000), NaN}
           NoBody == NoHttp.body
           \* request bodies by endpoint
           BodiesOf(e) ==
               CASE e = "chat_completions" ->
                       {[NoBody EXCEPT !.messages = m, !.stream = st] :
                           m \in Conversations, st \in BOOLEAN}
                 [] e = "responses" ->
                       {[NoBody EXCEPT !.messages = m, !.input = i] :
                           m \in {<<>>, <<[role |-> "user", content |-> Str(<<"a">>)]>>},
                           i \in ResponsesInputs}
                 [] e = "transcriptions" ->
                       {[NoBody EXCEPT !.upload = u, !.response_format = f, !.language = l] :
                           u \in Uploads, f \in TranscriptFormats, l \in {None, "", "de"}}
                 [] e = "translations" ->
                       {[NoBody EXCEPT !.upload = u, !.response_format = f] :
                           u \in Uploads, f \in TranscriptFormats}
                 [] e = "speech" ->
                       {[NoBody EXCEPT !.text = <<"a">>, !.speed = sp, !.response_format = f] :
                           sp \in Speeds, f \in SpeechFormats}
                 [] OTHER -> {NoBody}
       IN
       \E key \in {"", "good"}, e \in Endpoints, sc \in Schemes, tok \in Tokens :
         \E b \in BodiesOf(e) :
            http' = [http EXCEPT !.pc = IF e \in Guarded THEN "auth" ELSE "handler",
                                 !.key = key, !.endpoint = e, !.scheme = sc,
                                 !.token = IF sc = None THEN "" ELSE tok, !.body = b]
    /\ UNCHANGED <<cfgVars, svcVars, lock, pc, op, loc, result, histVars, nreq, pure>>

\* the response is complete
Respond(h, status, out) == http' = [h EXCEPT !.pc = "done", !.status = status, !.out = out]

\* the call of a service method, recorded with its arguments
Call(h, c) == [h EXCEPT !.calls = Append(@, c)]
NoCall == [op |-> "none", messages |-> <<>>, speed |-> Num(100)]

\* require_api_key as the dependency of a route
RequireApiKey ==
    /\ http.pc = "auth"
    /\ IF require_api_key(http.key, http.scheme, http.token)
       THEN http' = [http EXCEPT !.pc = "handler"]
       ELSE Respond(http, 401, NoHttp.out)
    /\ UNCHANGED <<cfgVars, svcVars, lock, pc, op, loc, result, histVars, nreq, pure>>

\* health
Health ==
    /\ http.pc = "handler" /\ http.endpoint = "health"
    /\ Respond(http, 200, [NoHttp.out EXCEPT !.kind = "health"])
    /\ UNCHANGED <<cfgVars, svcVars, lock, pc, op, loc, result, histVars, nreq, pure>>

\* list_models
ListModels ==
    /\ http.pc = "handler" /\ http.endpoint = "models"
    /\ Respond(Call(http, [NoCall EXCEPT !.op = "available_models"]), 200,
               [NoHttp.out EXCEPT !.kind = "list"])
    /\ UNCHANGED <<cfgVars, svcVars, lock, pc, op, loc, result, histVars, nreq, pure>>

\* chat_completions: service.chat is called with the messages of the payload;
\* an exception of the service is an HTTP 500
ChatCompletions ==
    /\ http.pc = "handler" /\ http.endpoint = "chat_completions"
    /\ LET messages == http.body.messages
           h == Call(http, [NoCall EXCEPT !.op = "chat", !.messages = messages])
       IN \/ \E answer \in ChatAnswers, completion_id \in {1, 2} :
               LET g == [h EXCEPT !.answer = answer, !.id = completion_id] IN
               IF http.body.stream
               THEN http' = [g EXCEPT !.pc = "first_chunk", !.status = 200]
               ELSE Respond(g, 200, [NoHttp.out EXCEPT !.kind = "chat.completion",
                                                  !.id = completion_id, !.text = answer])
          \/ Respond(h, 500, NoHttp.out)
    /\ UNCHANGED <<cfgVars, svcVars, lock, pc, op, loc, result, histVars, nreq, pure>>

\* an event of the stream
Chunk(id, role, content, finish_reason) ==
    [kind |-> "chunk", id |-> id, role |-> role, content |-> content,
     finish_reason |-> finish_reason]

\* variant: the answer is streamed one token per chunk
EventStreamFirst_perToken ==
    /\ http.pc = "first_chunk"
    /\ LET n == IF Len(http.chunks) < Len(http.answer) THEN Len(http.chunks) + 1 ELSE 0 IN
       http' = [http EXCEPT
                  !.chunks = Append(@, Chunk(http.id, "assistant",
                                             IF n = 0 THEN <<>> ELSE <<http.answer[n]>>, None)),
                  !.pc = IF n < Len(http.answer) /\ n # 0 THEN "first_chunk" ELSE "final_chunk"]
    /\ UNCHANGED <<cfgVars, svcVars, lock, pc, op, loc, result, histVars, nreq, pure>>

\* event_stream: the first yield
EventStreamFirst ==
    /\ http.pc = "first_chunk"
    /\ http' = [http EXCEPT !.chunks = Append(@, Chunk(http.id, "assistant", http.answer, None)),
                            !.pc = "final_chunk"]
    /\ UNCHANGED <<cfgVars, svcVars, lock, pc, op, loc, result, histVars, nreq, pure>>

\* event_stream: the second yield
EventStreamFinal ==
    /\ http.pc = "final_chunk"
    /\ http' = [http EXCEPT !.chunks = Append(@, Chunk(http.id, None, NoneText, "stop")),
                            !.pc = "terminator"]
    /\ UNCHANGED <<cfgVars, svcVars, lock, pc, op, loc, result, histVars, nreq, pure>>

\* event_stream: the third yield, "data: [DONE]"
EventStreamDone ==
    /\ http.pc = "terminator"
    /\ http' = [http EXCEPT !.chunks = Append(@, [Chunk(0, None, NoneText, None) EXCEPT !.kind = "done"]), !.pc = "done"]
    /\ UNCHANGED <<cfgVars, svcVars, lock, pc, op, loc, result, histVars, nreq, pure>>

\* responses_api: the loop over the items of a list input
RECURSIVE ItemMessages(_)
ItemMessages(items) ==
    IF items = <<>> THEN <<>>
    ELSE LET item == Head(items) IN
         (IF item.kind = "message" THEN <<[role |-> item.role, content |-> item.content]>>
          ELSE IF item.kind = "input_text" THEN <<[role |-> "user", content |-> item.content]>>
          ELSE <<>>) \o ItemMessages(Tail(items))

\* variant: only the items that are messages are kept
ResponsesMessages_dropParts(body) ==
    IF body.messages # <<>> THEN body.messages
    ELSE IF body.input.kind \in {"str", "absent"}
         THEN <<[role |-> "user", content |-> Str(body.input.text)]>>
    ELSE IF body.input.kind = "list"
         THEN ItemMessages(SelectSeq(body.input.items, LAMBDA i : i.kind = "message"))
    ELSE <<>>

\* responses_api: the messages built from the payload; an absent input is ""
ResponsesMessages(body) ==
    IF body.messages # <<>> THEN body.messages
    ELSE IF body.input.kind \in {"str", "absent"}
         THEN <<[role |-> "user", content |-> Str(body.input.text)]>>
    ELSE IF body.input.kind = "list" THEN ItemMessages(body.input.items)
    ELSE <<>>

\* responses_api
ResponsesApi ==
    /\ http.pc = "handler" /\ http.endpoint = "responses"
    /\ LET messages == ResponsesMessages(http.body)
           h == Call(http, [NoCall EXCEPT !.op = "chat", !.messages = messages])
       IN \/ \E answer \in ChatAnswers, response_id \in {1, 2} :
               Respond([h EXCEPT !.answer = answer, !.id = response_id], 200,
                       [NoHttp.out EXCEPT !.kind = "response", !.id = response_id, !.text = answer])
          \/ Respond(h, 500, NoHttp.out)
    /\ UNCHANGED <<cfgVars, svcVars, lock, pc, op, loc, result, histVars, nreq, pure>>

\* str.strip().lower() on a response_format
FormatNorm(f) ==
    CASE f = " " -> ""
      [] f = " MP3 " -> "mp3"
      [] f = " Verbose_JSON " -> "verbose_json"
      [] OTHER -> f

\* the body of audio_transcriptions is entered by the route or by audio_translations
AtTranscriptions ==
    \/ http.pc = "handler" /\ http.endpoint = "transcriptions"
    \/ http.pc = "transcriptions"

\* variant: the translation route answers by itself, with the compact JSON
AudioTranslations_own ==
    /\ http.pc = "handler" /\ http.endpoint = "translations"
    /\ \E text \in {<<"a">>} :
         Respond(Call([http EXCEPT !.answer = text], [NoCall EXCEPT !.op = "transcribe_audio"]),
                 200, [NoHttp.out EXCEPT !.kind = "json", !.text = text])
    /\ UNCHANGED <<cfgVars, svcVars, lock, pc, op, loc, result, histVars, nreq, pure>>

\* audio_translations: calls audio_transcriptions with language "en"
AudioTranslations ==
    /\ http.pc = "handler" /\ http.endpoint = "translations"
    /\ http' = [http EXCEPT !.pc = "transcriptions", !.body.language = "en"]
    /\ UNCHANGED <<cfgVars, svcVars, lock, pc, op, loc, result, histVars, nreq, pure>>

\* _decode_audio_bytes: the attempts made on the upload and what each gave;
\* ffmpeg may exit non-zero or be missing also for a file it could read
DecodeRuns(upload) ==
    IF upload = "wav" THEN {<<"sf.read ok">>}
    ELSE {<<"sf.read failed", "ffmpeg nonzero">>, <<"sf.read failed", "ffmpeg missing">>}
         \cup (IF upload = "m4a" THEN {<<"sf.read failed", "ffmpeg ok">>} ELSE {})

\* the last attempt gave a waveform
Decoded(run) == run # <<>> /\ run[Len(run)] \in {"sf.read ok", "ffmpeg ok"}

\* variant: a failed decode is passed on as an empty waveform
AudioTranscriptionsDecode_lenient ==
    /\ AtTranscriptions
    /\ IF http.body.upload = "empty"
       THEN Respond(http, 400, NoHttp.out)
       ELSE \E run \in DecodeRuns(http.body.upload) :
               http' = [http EXCEPT !.decode = run, !.pc = "asr"]
    /\ UNCHANGED <<cfgVars, svcVars, lock, pc, op, loc, result, histVars, nreq, pure>>

\* audio_transcriptions: read the upload, reject empty bytes, decode
AudioTranscriptionsDecode ==
    /\ AtTranscriptions
    /\ IF http.body.upload = "empty"
       THEN Respond(http, 400, NoHttp.out)
       ELSE \E run \in DecodeRuns(http.body.upload) :
               IF Decoded(run)
               THEN http' = [http EXCEPT !.decode = run, !.pc = "asr"]
               ELSE Respond([http EXCEPT !.decode = run], 400, NoHttp.out)
    /\ UNCHANGED <<cfgVars, svcVars, lock, pc, op, loc, result, histVars, nreq, pure>>

\* audio_transcriptions: the response for a text in the requested format
TranscriptionOut(response_format, language, text) ==
    LET normalized_format == FormatNorm(Or(response_format, "json")) IN
    IF normalized_format = "text" THEN [NoHttp.out EXCEPT !.kind = "plain", !.text = text]
    ELSE IF normalized_format = "verbose_json"
         THEN [NoHttp.out EXCEPT !.kind = "verbose_json", !.task = "transcribe",
                            !.language = Or(language, "en"), !.duration = TRUE, !.text = text]
    ELSE [NoHttp.out EXCEPT !.kind = "json", !.text = text]

\* audio_transcriptions: service.transcribe_audio and the rendering
AudioTranscriptionsInfer ==
    /\ http.pc = "asr"
    /\ LET h == Call(http, [NoCall EXCEPT !.op = "transcribe_audio"])
       IN \/ \E text \in {<<"a">>} :
               Respond([h EXCEPT !.answer = text], 200,
                       TranscriptionOut(http.body.response_format, http.body.language, text))
          \/ Respond(h, 500, NoHttp.out)
    /\ UNCHANGED <<cfgVars, svcVars, lock, pc, op, loc, result, histVars, nreq, pure>>

\* Python's a < b on floats: false when either is NaN
PyLt(a, b) == ~a.nan /\ ~b.nan /\ a.v < b.v

\* Python's min(a, b) and max(a, b)
PyMin(a, b) == IF PyLt(b, a) THEN b ELSE a
PyMax(a, b) == IF PyLt(a, b) THEN b ELSE a

\* the bounds of the speed, in hundredths
SpeedLow == 25
SpeedHigh == 400

\* variant: the speed is bounded from above only
ClampSpeed_noLow(speed) == PyMin(Num(SpeedHigh), speed)

\* audio_speech: "max(0.25, min(4.0, float(payload.speed)))"
ClampSpeed(speed) == PyMax(Num(SpeedLow), PyMin(Num(SpeedHigh), speed))

\* audio_speech: clamp the speed and call service.synthesize_speech
AudioSpeech ==
    /\ http.pc = "handler" /\ http.endpoint = "speech"
    /\ LET speed == ClampSpeed(http.body.speed)
           h == Call(http, [NoCall EXCEPT !.op = "synthesize_speech", !.speed = speed])
       IN \/ http' = [h EXCEPT !.pc = "encode"]
          \/ Respond(h, 500, NoHttp.out)
    /\ UNCHANGED <<cfgVars, svcVars, lock, pc, op, loc, result, histVars, nreq, pure>>

\* _encode_audio: the formats written directly and the media type of each format
MediaType(fmt) ==
    CASE fmt = "pcm" -> "application/octet-stream"
      [] fmt \in {"wav", "wave"} -> "audio/wav"
      [] fmt = "flac" -> "audio/flac"
      [] fmt = "aac" -> "audio/aac"
      [] fmt = "opus" -> "audio/opus"
      [] fmt = "mp3" -> "audio/mpeg"
      [] OTHER -> None

\* _encode_audio: "(response_format or 'mp3').strip().lower()"
EncodeFormat(response_format) == FormatNorm(Or(response_format, "mp3"))

\* variant: a format that is not supported is encoded as mp3
EncodeAudio_anyFormat ==
    /\ http.pc = "encode"
    /\ LET fmt == EncodeFormat(http.body.response_format) IN
       IF fmt \in {"pcm", "wav", "wave"}
       THEN Respond(http, 200, [NoHttp.out EXCEPT !.kind = "audio", !.media_type = MediaType(fmt)])
       ELSE \/ Respond([http EXCEPT !.encode = <<"ffmpeg ok">>], 200,
                       [NoHttp.out EXCEPT !.kind = "audio",
                                     !.media_type = Or(MediaType(fmt), "audio/mpeg")])
            \/ Respond([http EXCEPT !.encode = <<"ffmpeg nonzero">>], 400, NoHttp.out)
            \/ Respond([http EXCEPT !.encode = <<"ffmpeg missing">>], 500, NoHttp.out)
    /\ UNCHANGED <<cfgVars, svcVars, lock, pc, op, loc, result, histVars, nreq, pure>>

\* audio_speech: _encode_audio and _transcode_with_ffmpeg; a ValueError is
\* an HTTP 400, a missing ffmpeg (FileNotFoundError) is not caught
EncodeAudio ==
    /\ http.pc = "encode"
    /\ LET fmt == EncodeFormat(http.body.response_format) IN
       IF fmt \in {"pcm", "wav", "wave"}
       THEN Respond(http, 200, [NoHttp.out EXCEPT !.kind = "audio", !.media_type = MediaType(fmt)])
       ELSE IF MediaType(fmt) # None
       THEN \/ Respond([http EXCEPT !.encode = <<"ffmpeg ok">>], 200,
                       [NoHttp.out EXCEPT !.kind = "audio", !.media_type = MediaType(fmt)])
            \/ Respond([http EXCEPT !.encode = <<"ffmpeg nonzero">>], 400, NoHttp.out)
            \/ Respond([http EXCEPT !.encode = <<"ffmpeg missing">>], 500, NoHttp.out)
       ELSE Respond(http, 400, NoHttp.out)
    /\ UNCHANGED <<cfgVars, svcVars, lock, pc, op, loc, result, histVars, nreq, pure>>

\* one request through the server, the service object untouched by the model

HttpNext ==
    \/ HttpReceive \/ RequireApiKey \/ Health \/ ListModels
    \/ ChatCompletions \/ EventStreamFirst \/ EventStreamFinal \/ EventStreamDone
    \/ ResponsesApi
    \/ AudioTranslations \/ AudioTranscriptionsDecode \/ AudioTranscriptionsInfer
    \/ AudioSpeech \/ EncodeAudio

SpecHttp == Init /\ [][HttpNext]_vars

\* ------------------------------------------------- the helpers on their own
\* The module-level helpers of api_service.py and the pattern matcher are
\* functions of their argument; SpecPure applies them to inputs drawn from
\* the sets below.
MaxMessages == 2     \* messages of a drawn conversation
MaxRegs == 2         \* register_tool calls on a registry

\* _normalize_messages(messages) is called
NormalizeMessages ==
    /\ pure.fn = "none"
    /\ LET \* roles a message can carry ("absent": the message has no role)
           RawRoles == {"user", "assistant", "absent", " user "}
           \* parts and contents that are no string, list or dict
           StrPart(x) == [kind |-> "str", type |-> "", text |-> x]
           OtherPart == [kind |-> "other", type |-> "", text |-> <<>>]
           NoContent == [kind |-> "none", text |-> <<>>, parts |-> <<>>]
           OtherContent(x) == [kind |-> "other", text |-> x, parts |-> <<>>]
           \* contents a message can carry
           RawContents ==
               { Str(<<"a">>), Str(<<" ", "b", " ">>), Str(<<" ">>), NoContent,
                 OtherContent(<<"a", " ">>),
                 PartList(<<>>),
                 PartList(<<DictPart("text", <<"a">>), DictPart("input_text", <<"b", " ">>),
                            DictPart("image_url", <<"a">>)>>),
                 PartList(<<DictPart(" Text ", <<"b">>), OtherPart, StrPart(<<" ", "a">>),
                            DictPart("output_text", <<"a">>)>>),
                 PartList(<<DictPart("image_url", <<"a">>), DictPart("text", <<" ">>)>>) }
           RawMessages == [role : RawRoles, content : RawContents]
           RawConversations == UNION {[1..n -> RawMessages] : n \in 0..MaxMessages}
       IN \E messages \in RawConversations :
             pure' = [pure EXCEPT !.fn = "normalized", !.messages = messages,
                                  !.normalized = _normalize_messages(messages)]
    /\ UNCHANGED <<cfgVars, svcVars, lock, pc, op, loc, result, histVars, nreq, http>>

\* _latest_user_message(normalized) is called, as chat does
LatestUserMessage ==
    /\ pure.fn = "normalized"
    /\ pure' = [pure EXCEPT !.fn = "latest",
                            !.utterance = _latest_user_message(pure.normalized)]
    /\ UNCHANGED <<cfgVars, svcVars, lock, pc, op, loc, result, histVars, nreq, http>>

\* utterances given to the matcher
MatcherTexts ==
    { <<"play", "a">>, <<"PLAY", "a", "b">>, <<" ", "play", " ", "b", " ">>,
      <<"a", "play", "b">>,
      <<"stop">>, <<" ", "STOP", " ">>, <<"pause">>, <<"halt">>,
      <<"skip">>, <<" ", "skip">>, <<"resume">>, <<" ", "resume">>,
      <<"what", "time", "is", "it">>, <<"whats", "the", "time">>,
      <<"start", "timer", "a", "b">>, <<"set", "timer", "for", "b">>,
      <<"start", "a", "timer", "b", "please">>,
      <<"get", "timers">>, <<"get", "timer">>,
      <<"a", "b">>, <<" ", "a", " ">>, <<"what", "a">>, <<>> }

\* variant: the matcher is given the trimmed utterance
CatchAll_stripped ==
    /\ pure.fn = "none"
    /\ \E text \in MatcherTexts :
          pure' = [pure EXCEPT !.fn = "caught", !.text = text,
                               !.caught = catchAll(Strip(text))]
    /\ UNCHANGED <<cfgVars, svcVars, lock, pc, op, loc, result, histVars, nreq, http>>

\* catchAll(text) is called
CatchAll ==
    /\ pure.fn = "none"
    /\ \E text \in MatcherTexts :
          pure' = [pure EXCEPT !.fn = "caught", !.text = text, !.caught = catchAll(text)]
    /\ UNCHANGED <<cfgVars, svcVars, lock, pc, op, loc, result, histVars, nreq, http>>

\* ToolRegistry.register_tool(func, name=None, aliases=None): the tool is
\* stored under its name (the function's own name by default), each alias
\* refers to that name
register_tool(reg, func, name, aliases) ==
    LET tool_name == IF name = None THEN func ELSE name
    IN [reg EXCEPT !.tools[tool_name] = func,
                   !.aliases = [a \in DOMAIN @ |-> IF a \in aliases THEN tool_name ELSE @[a]],
                   !.regs = Append(@, [func |-> func, name |-> tool_name, aliases |-> aliases])]

\* variant: aliases are not looked up
get_tool_noAliases(reg, name) == reg.tools[name]

\* ToolRegistry.get_tool(name): the function stored under the name, or under
\* the name an alias refers to; None for an unknown name
get_tool(reg, name) ==
    IF reg.tools[name] # None THEN reg.tools[name]
    ELSE IF reg.aliases[name] # None THEN reg.tools[reg.aliases[name]]
    ELSE None

\* ToolRegistry.execute_tool(name, args=None, kwargs=None): the result of
\* func(*args, **kwargs), ValueError("Unknown tool") for an unknown name
execute_tool(reg, name, by) ==
    IF get_tool(reg, name) = None THEN [fn |-> "ValueError", by |-> None]
    ELSE [fn |-> get_tool(reg, name), by |-> by]

\* register_tool is called on the registry
RegisterTool ==
    /\ pure.fn \in {"none", "registry"}
    /\ Len(pure.registry.regs) < MaxRegs
    /\ \E func \in {"f", "g"}, name \in {None, "x", "y"}, aliases \in SUBSET {"f", "x", "y"} :
          pure' = [pure EXCEPT !.fn = "registry",
                               !.registry = register_tool(@, func, name, aliases)]
    /\ UNCHANGED <<cfgVars, svcVars, lock, pc, op, loc, result, histVars, nreq, http>>

\* execute_tool is called with positional or with keyword arguments
ExecuteTool ==
    /\ pure.fn \in {"none", "registry"}
    /\ \E name \in DOMAIN pure.registry.tools, by \in {"args", "kwargs"} :
          pure' = [pure EXCEPT !.fn = "executed", !.registry.asked = name,
                               !.registry.out = execute_tool(pure.registry, name, by)]
    /\ UNCHANGED <<cfgVars, svcVars, lock, pc, op, loc, result, histVars, nreq, http>>

\* A sample is the number n/d, or NaN; the samples of one array share d.
\* _ensure_float32_mono(audio): the frames of a 2-D array are averaged over
\* their channels, the result is float32, and it is divided by its peak when
\* the peak compares greater than 1.0. np.max gives NaN for an array that
\* holds a NaN, and NaN > 1.0 is false.
_ensure_float32_mono(audio) ==
    LET Sum(frame) == IF Len(frame) = 1 THEN frame[1].n ELSE frame[1].n + frame[2].n
        arr == [i \in 1..Len(audio.frames) |->
                  IF audio.ndim > 1
                  THEN [nan |-> \E c \in 1..Len(audio.frames[i]) : audio.frames[i][c].nan,
                        n |-> Sum(audio.frames[i]),
                        d |-> audio.frames[i][1].d * Len(audio.frames[i])]
                  ELSE audio.frames[i][1]]
        Abs(x) == IF x < 0 THEN -x ELSE x
        peak == CHOOSE m \in {Abs(arr[i].n) : i \in 1..Len(arr)} :
                   \A i \in 1..Len(arr) : Abs(arr[i].n) <= m
        max_abs_nan == \E i \in 1..Len(arr) : arr[i].nan
        exceeds == Len(arr) > 0 /\ ~max_abs_nan /\ peak > arr[1].d
    IN [ndim |-> 1, dtype |-> "float32",
        samples |-> IF exceeds THEN [i \in 1..Len(arr) |-> [arr[i] EXCEPT !.d = peak]]
                    ELSE arr]

\* _ensure_float32_mono is called on a decoded upload or a synthesized
\* waveform: one or two channels, up to two frames, samples of -2.0, -0.5,
\* 0.75, 1.5 or NaN
EnsureFloat32Mono ==
    /\ pure.fn = "none"
    /\ LET Samples == {[nan |-> FALSE, n |-> v, d |-> 4] : v \in {-8, -2, 3, 6}}
                         \cup {[nan |-> TRUE, n |-> 0, d |-> 4]}
           Frames(channels) == [1..channels -> Samples]
           Arrays == [ndim : {1}, dtype : {"float32", "float64"},
                      frames : UNION {[1..k -> Frames(1)] : k \in 0..2}]
                       \cup [ndim : {2}, dtype : {"float32", "float64"},
                             frames : UNION {[1..k -> Frames(c)] : k \in 0..2, c \in 1..2}]
       IN \E audio \in Arrays :
             pure' = [pure EXCEPT !.fn = "mono", !.audio.arr = audio,
                                  !.audio.mono = _ensure_float32_mono(audio)]
    /\ UNCHANGED <<cfgVars, svcVars, lock, pc, op, loc, result, histVars, nreq, http>>

TARGET_SAMPLE_RATE == 16000

\* the number of samples truncation instead of rounding would give
_prepare_audio_truncating(size, sample_rate, target_sample_rate) ==
    IF sample_rate = target_sample_rate \/ size = 0 THEN size
    ELSE IF (size * target_sample_rate) \div sample_rate < 1 THEN 1
    ELSE (size * target_sample_rate) \div sample_rate

\* _prepare_audio(audio, sample_rate, target_sample_rate), as the number of
\* samples it returns for a mono waveform of `size` samples:
\* max(1, int(round(duration * target_sample_rate))) with
\* duration = size / float(sample_rate), both in double precision. round()
\* rounds a half to the even neighbour; the product of the two roundings is
\* exact or off by less than 1e-9, which matters only when size *
\* target_sample_rate / sample_rate is exactly a half: for the sizes in
\* FloatBelowHalf the double product is the largest double below the half
\* (1003 / 32000.0 * 16000 = 501.49999999999994).
_prepare_audio(size, sample_rate, target_sample_rate) ==
    LET FloatBelowHalf == {<<1001, 32000, 16000>>, <<1003, 32000, 16000>>,
                           <<1005, 32000, 16000>>, <<1007, 32000, 16000>>}
        whole == (size * target_sample_rate) \div sample_rate
        rest == (size * target_sample_rate) % sample_rate
        rounded == IF 2 * rest < sample_rate THEN whole
                   ELSE IF 2 * rest > sample_rate THEN whole + 1
                   ELSE IF <<size, sample_rate, target_sample_rate>> \in FloatBelowHalf
                        THEN whole
                   ELSE IF whole % 2 = 0 THEN whole ELSE whole + 1
    IN IF sample_rate = target_sample_rate \/ size = 0 THEN size
       ELSE IF rounded < 1 THEN 1 ELSE rounded

\* transcribe_audio prepares a decoded waveform for the ASR model
PrepareAudio ==
    /\ pure.fn = "none"
    /\ \E size \in {0, 1, 2, 3, 1001, 1003, 1005, 1007, 4410},
          sample_rate \in {8000, 16000, 32000, 44100, 96000} :
          pure' = [pure EXCEPT !.fn = "prepared", !.audio.size = size,
                               !.audio.sample_rate = sample_rate,
                               !.audio.prepared =
                                   _prepare_audio(size, sample_rate, TARGET_SAMPLE_RATE)]
    /\ UNCHANGED <<cfgVars, svcVars, lock, pc, op, loc, result, histVars, nreq, http>>

\* The tools backed by a coroutine (set_temperature, get_temperature,
\* turn_on_ac, turn_off_ac, dishwasher_status) share one body: without a
\* running event loop in the calling thread asyncio.run gives the
\* coroutine's text, with one loop.create_task gives a Task.
AsyncTool(loop_running, text) ==
    IF loop_running THEN [kind |-> "Task", text |-> NoneText]
    ELSE [kind |-> "str", text |-> text]

\* _run_intent_pipeline on the model route, the intent naming a tool backed
\* by a coroutine: the tool is called through handle_intent, which hands
\* its return value on, and the answer is tested. The caller of chat is an
\* HTTP handler, which runs on the event loop, or a plain thread.
DispatchAsyncTool ==
    /\ pure.fn = "none"
    /\ \E name \in {"set_temperature", "get_temperature", "turn_on_ac", "turn_off_ac",
                    "dishwasher_status"},
          caller \in {"handler", "thread"},
          text \in {<<"a">>, <<"a", "b">>, <<"U", "a">>, <<" ">>} :
          LET ret == AsyncTool(caller = "handler", text)
          IN pure' = [pure EXCEPT !.fn = "tool", !.text = text,
                         !.tool = [name |-> name, caller |-> caller, ret |-> ret,
                                   answer |-> IF ret.kind = "str" /\ ModelResolves(ret.text)
                                              THEN ret.text ELSE NoneText]]
    /\ UNCHANGED <<cfgVars, svcVars, lock, pc, op, loc, result, histVars, nreq, http>>

PureNext ==
    \/ NormalizeMessages \/ LatestUserMessage \/ CatchAll
    \/ RegisterTool \/ ExecuteTool
    \/ EnsureFloat32Mono \/ PrepareAudio
    \/ DispatchAsyncTool

SpecPure == Init /\ [][PureNext]_vars

\* =============================================================== claims
\* positions at which a thread is executing an inference call on backend b
InferencePcs(b) ==
    CASE b = "ASR" -> {"asr_infer"}
      [] b = "SLM" -> {"intent_gen", "conv_gen"}
      [] b = "TTS" -> {"tts_synth", "tts_retry"}

\* positions inside the load body of _ensure_* for backend b (after the re-check)
LoadBodyPcs(b) ==
    CASE b = "ASR" -> {"asr_load"}
      [] b = "SLM" -> {"slm_load", "slm_intent_prompt", "slm_chat_prompt"}
      [] b = "TTS" -> {"tts_import", "tiny_synthesize", "tiny_remove_emoji",
                       "tiny_active_voice", "full_remove_emoji", "full_synthesize",
                       "full_set_voice", "full_voice_prompt", "full_active_voice",
                       "full_warmup"}

\* positions at which a chat request is loading, waiting for or running the SLM
SlmPcs == {"ensure", "load_acquire", "load_recheck", "slm_load", "slm_intent_prompt",
           "slm_chat_prompt", "intent_acquire", "intent_gen", "dispatch2",
           "conv_build", "conv_acquire", "conv_gen"}

\* the two locks created for backend b
OwnLocks(b) ==
    CASE b = "ASR" -> {"asr_load", "asr_infer"}
      [] b = "SLM" -> {"slm_load", "slm_infer"}
      [] b = "TTS" -> {"tts_load", "tts_infer"}
      [] OTHER -> {}

\* the text has a character that is not whitespace
NonBlank(x) == x # NoneText /\ \E i \in 1..Len(x) : x[i] \notin Space

In(b, pcs) == {t \in Threads : CapOf(op[t]) = b /\ pc[t] \in pcs}

\* C1: on each backend at most one thread at a time is executing an inference
\* call (the ASR pipeline call, generate_slm on either route, the TTS
\* synthesize call and its fallback retry).
C1_OneInferencePerBackend ==
    \A b \in Backends : Cardinality(In(b, InferencePcs(b))) <= 1

\* C1 witness: one chat request is inside generate_slm on the intent route
\* while another waits for the inference lock on the conversation route.
C1_Witness ==
    \E t1, t2 \in Threads : pc[t1] = "intent_gen" /\ pc[t2] = "conv_acquire"

\* C2: on each backend at most one thread at a time is inside the load body
\* of the ensure function.
C2_OneLoadPerBackend ==
    \A b \in Backends : Cardinality(In(b, LoadBodyPcs(b))) <= 1

\* C2 witness: one thread is inside the TTS load body while another thread
\* that also found the backend unloaded waits for the load lock.
C2_Witness ==
    \E t1, t2 \in Threads :
        /\ pc[t1] = "tts_import"
        /\ pc[t2] = "load_acquire" /\ op[t2] = "speech"

\* C3: a backend is loaded successfully at most once, and once it has been
\* loaded every load attempt ever started is that load or an earlier failed
\* one: no later call and no loser of the race starts another load.
C3_LoadedOnce ==
    \A b \in Backends :
        /\ loadDone[b] <= 1
        /\ loadDone[b] = 1 => loadCalls[b] = loadFailed[b] + 1

\* C3 witness: a thread that lost the race holds the load lock at the
\* re-check after the winner's load has succeeded, and the load was the only one.
C3_Witness ==
    \E t \in Threads :
        /\ pc[t] = "load_recheck"
        /\ loadDone[CapOf(op[t])] = 1 /\ loadCalls[CapOf(op[t])] = 1

\* C4: when a load attempt has raised and no load has succeeded or is under
\* way, the backend is not loaded: the ensure function's fast path is closed.
C4_FailedLoadLeavesUnloaded ==
    \A b \in Backends :
        (loadDone[b] = 0 /\ In(b, LoadBodyPcs(b)) = {}) => ~Loaded(b)

\* C5: a thread only ever acquires, and so only ever waits for, the load
\* lock and the inference lock of the backend its own call works on.
C5_OnlyOwnLocks ==
    \A l \in Locks : \A t \in Threads :
        lock[l] = t => l \in OwnLocks(CapOf(op[t]))

\* C5 witness: an SLM load is in progress while a speech request is inside
\* synthesis and holds the TTS inference lock.
C5_Witness ==
    \E t1, t2 \in Threads :
        /\ pc[t1] = "slm_load" /\ lock["slm_load"] = t1
        /\ pc[t2] = "tts_synth" /\ lock["tts_infer"] = t2

\* C6: a chat request that is loading, waiting for or running the SLM, or
\* that has invoked generate_slm, has already run catchAll on its utterance.
C6_MatcherFirst ==
    \A t \in Threads :
        (op[t] = "chat" /\ (pc[t] \in SlmPcs \/ loc[t].gen > 0)) => loc[t].stage # "start"

\* C6 witness: a chat request is inside generate_slm on the intent route
\* after the matcher ran on its utterance and missed.
C6_Witness ==
    \E t \in Threads :
        pc[t] = "intent_gen" /\ loc[t].stage = "matched" /\ loc[t].caught = NoIntent

C8_PatternResolvesHere ==
    \A t \in Threads :
        (pc[t] = "done" /\ loc[t].caught # NoIntent /\ NonBlank(loc[t].pattern_answer)) =>
            /\ result[t].kind = "text" /\ result[t].via = "pattern"
            /\ result[t].val \in {CleanText(loc[t].pattern_answer, TRUE, None),
                                  CleanText(loc[t].pattern_answer, TRUE, "remove_emoji")}
            /\ loc[t].stage = "resolved"
            /\ loc[t].route = None /\ loc[t].gen = 0

\* C8 witness: a request has returned a quoted tool text with the quotes removed.
C8_Witness ==
    \E t \in Threads :
        /\ pc[t] = "done" /\ loc[t].caught # NoIntent
        /\ loc[t].pattern_answer = <<"q", "<", ">", "a", "q">> /\ result[t].val = <<"<", ">", "a">>

\* C9: a dispatch whose text contains the fallback marker never resolves the
\* pipeline, on the pattern route as on the model route, so chat never
\* returns that text.
C9_MarkerNeverReturned ==
    \A t \in Threads :
        /\ result[t].via = "pattern" => ~HasMarker(loc[t].pattern_answer)
        /\ result[t].via = "model" => ~HasMarker(loc[t].model_answer)

\* C10: with use_ai false the SLM is never loaded and generate_slm never
\* invoked; a chat request ends with the guidance text (no user message), the
\* pattern route's tool answer or the fixed disabled text, and the only error
\* it can end with is one raised by the tool.
C10_DisabledNeverUsesSlm ==
    ~use_ai =>
        /\ loadCalls["SLM"] = 0 /\ ~Loaded("SLM")
        /\ \A t \in Threads : op[t] = "chat" =>
              /\ loc[t].gen = 0
              /\ pc[t] \in {"chat_begin", "pipeline", "dispatch1", "done"}
              /\ pc[t] = "done" =>
                    \/ result[t].via = "guidance" /\ result[t].val = NeedUserMessage
                    \/ result[t].via = "pattern" /\ NonBlank(loc[t].pattern_answer)
                    \/ /\ result[t].via = "disabled" /\ result[t].val = ChatDisabled
                       /\ result[t].kind = "text" /\ loc[t].stage = "unresolved"
                    \/ result[t].via = "ToolError"

\* C10 witness: with use_ai false a request whose utterance matched no
\* pattern has ended with the disabled text.
C10_Witness ==
    \E t \in Threads :
        /\ ~use_ai /\ pc[t] = "done" /\ result[t].val = ChatDisabled
        /\ loc[t].caught = NoIntent /\ loc[t].stage = "unresolved"

\* the payload parses into an {intent, args} object
IsIntentObject(payload) == payload = <<"J">>

\* the message list has a message with role system
HasSystem(m) == \E i \in 1..Len(m) : m[i].role = "system"

\* C11: on the model route the tool dispatcher is called only with a payload
\* that parsed into an {intent, args} object; an output that is empty or is
\* not such an object never reaches handle_intent.
C11_DispatcherGetsIntentObject ==
    \A t \in Threads : pc[t] = "dispatch2" => IsIntentObject(loc[t].payload)

\* C12: a chat request that went to the conversation route and met no load or
\* inference failure ends with a text produced by the conversation call, and
\* that call was given the whole message list built for it.
C12_ConversationAnswers ==
    \A t \in Threads :
        (/\ op[t] = "chat" /\ pc[t] = "done" /\ loc[t].route = "conv"
         /\ result[t].via \notin {"LoadError", "InferenceError"})
        => /\ result[t].kind = "text" /\ result[t].via = "conv"
           /\ loc[t].delivered = loc[t].messages_for_chat

\* C13: a text returned by chat always has a character that is not whitespace.
C13_ChatTextNonBlank ==
    \A t \in Threads :
        (op[t] = "chat" /\ pc[t] = "done" /\ result[t].kind = "text")
        => NonBlank(result[t].val)

\* C14: two chat requests with the same conversation that ended on the same
\* route with the same tool answers return the same text, whatever was
\* loaded between them.
C14_UniformSanitation ==
    \A t1, t2 \in Threads :
        (/\ op[t1] = "chat" /\ op[t2] = "chat" /\ pc[t1] = "done" /\ pc[t2] = "done"
         /\ result[t1].via = result[t2].via /\ result[t1].via \in {"pattern", "model"}
         /\ loc[t1].messages = loc[t2].messages
         /\ loc[t1].pattern_answer = loc[t2].pattern_answer
         /\ loc[t1].model_answer = loc[t2].model_answer)
        => result[t1].val = result[t2].val

\* C15: when the conversation call is made the model is given a message list
\* with a system message: the persona prompt followed by the normalized
\* messages when these have no system message, the normalized messages alone
\* when they have one.
C15_SystemMessageDelivered ==
    \A t \in Threads :
        pc[t] = "conv_gen" =>
            /\ HasSystem(loc[t].delivered)
            /\ loc[t].delivered =
                  IF HasSystem(loc[t].messages) THEN loc[t].messages
                  ELSE <<[role |-> "system", content |-> <<"persona">>]>> \o loc[t].messages

\* C16: a chat request whose normalized messages hold no user message with
\* content ends at once with the guidance text: the matcher has not run, no
\* tool was dispatched, no backend was loaded or invoked, nothing was raised.
C16_NoUserMessageGuidance ==
    \A t \in Threads :
        (op[t] = "chat" /\ pc[t] # "chat_begin" /\ _latest_user_message(loc[t].messages) = <<>>)
        => /\ pc[t] = "done"
           /\ result[t] = [kind |-> "text", val |-> NeedUserMessage, via |-> "guidance"]
           /\ loc[t].stage = "start" /\ loc[t].caught = NoIntent
           /\ loc[t].pattern_answer = NoneText /\ loc[t].model_answer = NoneText
           /\ loc[t].route = None /\ loc[t].gen = 0

\* C16 witness: a conversation with a system message and a blank user message
\* has been answered with the guidance text.
C16_Witness ==
    \E t \in Threads :
        /\ op[t] = "chat" /\ pc[t] = "done" /\ result[t].via = "guidance"
        /\ loc[t].messages = <<[role |-> "system", content |-> <<"a">>]>>

\* C17: the step in which the voice switch fails changes neither the active
\* voice nor the voice prompt, raises nothing and takes the request to the
\* synthesis call.
C17_FailedSwitchKeepsVoice ==
    [][\A t \in Threads :
          (loc[t].switch # "failed" /\ loc'[t].switch = "failed")
          => /\ pc[t] = "tts_switch" /\ pc'[t] = "tts_synth"
             /\ active_voice' = active_voice /\ voice_prompt' = voice_prompt
             /\ loc'[t].voice_before = active_voice']_vars

\* C17 witness: a request whose switch to another voice failed is at the
\* synthesis call with the earlier voice still active.
C17_Witness ==
    \E t \in Threads :
        /\ pc[t] = "tts_synth" /\ loc[t].switch = "failed"
        /\ active_voice = loc[t].voice_before
        /\ loc[t].requested_voice # active_voice

\* C18: the voice given to the first synthesize call of a request is the
\* active voice at the moment of the call.
C18_FirstVoiceIsActive ==
    \A t \in Threads :
        (op[t] = "speech" /\ Len(loc[t].tries) >= 1)
        => loc[t].tries[1].voice = loc[t].tries[1].active

\* C19: a finished speech request that asked for another voice than the one
\* active before it and whose first synthesize call failed has made exactly
\* one more call, with the voice that was active before.
C19_RetryWithPreviousVoice ==
    \A t \in Threads :
        (/\ op[t] = "speech" /\ pc[t] = "done" /\ Len(loc[t].tries) >= 1
         /\ result[t].via # "first"
         /\ loc[t].requested_voice # loc[t].voice_before)
        => /\ Len(loc[t].tries) = 2
           /\ loc[t].tries[2].voice = loc[t].voice_before

\* C20: a speech request calls synthesize at most twice; the second call is
\* made only after a failed first one whose voice differs from the fallback
\* voice, and uses the fallback voice; a failure with the fallback voice
\* itself, or of the retry, ends the request with the error.
C20_AtMostTwoSyntheses ==
    \A t \in Threads :
        op[t] = "speech" =>
            /\ Len(loc[t].tries) <= 2
            /\ pc[t] = "tts_retry" =>
                  /\ Len(loc[t].tries) = 1
                  /\ loc[t].requested_voice # loc[t].fallback_voice
            /\ Len(loc[t].tries) = 2 =>
                  /\ pc[t] = "done" /\ result[t].via \in {"retry", "InferenceError"}
                  /\ loc[t].tries[2].voice = loc[t].fallback_voice
                  /\ loc[t].tries[1].voice # loc[t].tries[2].voice
            /\ (pc[t] = "done" /\ result[t].via = "InferenceError" /\ Len(loc[t].tries) = 1)
                  => loc[t].requested_voice = loc[t].fallback_voice

\* C20 witness: a request has ended with the error after its retry failed
\* too, and another after a single failed call with the fallback voice.
C20_Witness ==
    \E t1, t2 \in Threads :
        /\ pc[t1] = "done" /\ result[t1].via = "InferenceError" /\ Len(loc[t1].tries) = 2
        /\ pc[t2] = "done" /\ result[t2].via = "InferenceError" /\ Len(loc[t2].tries) = 1

\* C21: a finished speech request that switched to the requested voice and
\* whose synthesis with that voice failed has not left that voice as the
\* active voice.
C21_FailedVoiceNotActive ==
    \A t \in Threads :
        (/\ op[t] = "speech" /\ pc[t] = "done" /\ result[t].via = "InferenceError"
         /\ loc[t].switch = "ok" /\ Len(loc[t].tries) = 1)
        => active_voice # loc[t].requested_voice

\* the request carries the configured key as a bearer token
GoodBearer == http.scheme \in {"Bearer", "bearer"} /\ http.token = http.key

\* C22: with a key configured, a request without that key as bearer token
\* never reaches a handler, runs no service operation and is answered 401.
C22_UnauthorizedGets401 ==
    (http.pc # "idle" /\ http.key # "" /\ ~GoodBearer)
    => /\ http.pc \in {"auth", "done"}
       /\ http.calls = <<>>
       /\ http.pc = "done" => http.status = 401

\* C23: a streamed chat completion consists of one chunk with the whole
\* answer and finish_reason null, one chunk with an empty delta and
\* finish_reason "stop" under the same id, and the terminator, in this order.
C23_StreamTwoChunks ==
    /\ Len(http.chunks) <= 3
    /\ (http.endpoint = "chat_completions" /\ http.body.stream /\ http.pc = "done"
        /\ http.status = 200)
       => /\ Len(http.chunks) = 3
          /\ http.chunks[1] = [kind |-> "chunk", id |-> http.id, role |-> "assistant",
                               content |-> http.answer, finish_reason |-> None]
          /\ http.chunks[2].kind = "chunk" /\ http.chunks[2].content = NoneText
          /\ http.chunks[2].finish_reason = "stop"
          /\ http.chunks[2].id = http.chunks[1].id
          /\ http.chunks[3].kind = "done"

\* C23 witness: an answer of two tokens has been streamed to the end.
C23_Witness ==
    /\ http.pc = "done" /\ http.body.stream /\ http.answer = <<"a", "b">>
    /\ Len(http.chunks) = 3

\* the smaller and the larger of two integers
Min2(a, b) == IF a <= b THEN a ELSE b
Max2(a, b) == IF a >= b THEN a ELSE b

\* C24 as stated: the speed given to synthesize_speech is
\* min(4.0, max(0.25, s)) for every request speed s.
C24_SpeedIsMinMax ==
    \A i \in 1..Len(http.calls) :
        http.calls[i].op = "synthesize_speech" =>
            http.calls[i].speed = PyMin(Num(400), PyMax(Num(25), http.body.speed))

\* C24 amended: the speed given to synthesize_speech lies in [0.25, 4.0];
\* for a numeric request speed s it is min(4.0, max(0.25, s)), hence s itself
\* when s is in that range; for a NaN it is 4.0.
C24_SpeedClamped ==
    \A i \in 1..Len(http.calls) :
        http.calls[i].op = "synthesize_speech" =>
            LET s == http.body.speed
                x == http.calls[i].speed
            IN /\ ~x.nan /\ 25 <= x.v /\ x.v <= 400
               /\ ~s.nan => x.v = Min2(400, Max2(25, s.v))
               /\ (~s.nan /\ 25 <= s.v /\ s.v <= 400) => x = s
               /\ s.nan => x = Num(400)

\* C24 witness: synthesis has been called with 4.0 for a request whose speed
\* is NaN.
C24_Witness ==
    /\ http.endpoint = "speech" /\ Len(http.calls) = 1
    /\ http.body.speed = NaN /\ http.calls[1].speed = Num(400)

\* the formats the claim lists
SupportedFormats == {"pcm", "wav", "wave", "flac", "aac", "opus", "mp3"}

\* a finished speech request whose synthesis did not fail
SpeechEncoded ==
    /\ http.endpoint = "speech" /\ http.pc = "done" /\ http.status # 401
    /\ ~(http.status = 500 /\ http.encode = <<>>)

\* C25 as stated: the trimmed, lower-cased response_format is accepted exactly
\* when it is one of the seven formats; any other value and a non-zero exit
\* of the encoder give 400.
C25_AcceptedExactlySupported ==
    SpeechEncoded =>
        LET f == FormatNorm(http.body.response_format) IN
        /\ f \notin SupportedFormats => http.status = 400
        /\ http.encode = <<"ffmpeg nonzero">> => http.status = 400
        /\ http.status = 200 => f \in SupportedFormats

\* C25 amended: as above, except that an empty response_format is accepted
\* as mp3.
C25_AcceptedSupportedOrEmpty ==
    SpeechEncoded =>
        LET raw == http.body.response_format
            f == FormatNorm(raw)
            accepted == raw = "" \/ f \in SupportedFormats
        IN /\ ~accepted => http.status = 400
           /\ http.encode = <<"ffmpeg nonzero">> => http.status = 400
           /\ http.status = 200 =>
                 /\ accepted
                 /\ http.out.media_type = MediaType(IF raw = "" THEN "mp3" ELSE f)
           /\ (accepted /\ http.encode \in {<<>>, <<"ffmpeg ok">>}) => http.status = 200

\* C25 witness: a request with an empty response_format has been answered
\* with mp3 audio.
C25_Witness ==
    /\ SpeechEncoded /\ http.body.response_format = ""
    /\ http.status = 200 /\ http.out.media_type = "audio/mpeg"

\* C26: a transcription or translation request whose upload is empty or is
\* not decoded is answered 400 after at most one direct and one transcoder
\* attempt, and service.transcribe_audio is not called for it.
C26_BadUploadRejected ==
    http.endpoint \in {"transcriptions", "translations"} =>
        /\ Len(http.decode) <= 2
        /\ http.calls # <<>> => Decoded(http.decode)
        /\ (http.pc = "done" /\ http.status # 401 /\ ~Decoded(http.decode))
           => http.status = 400 /\ http.calls = <<>>

\* C26 witness: an upload neither soundfile nor ffmpeg could read has been
\* rejected.
C26_Witness ==
    /\ http.endpoint = "transcriptions" /\ http.pc = "done" /\ http.status = 400
    /\ http.body.upload = "garbage" /\ http.decode = <<"sf.read failed", "ffmpeg nonzero">>

\* C27: a translation request takes the steps of a transcription request
\* with language "en": same decode, same service call, and the response a
\* transcription renders for that language.
C27_TranslationIsTranscriptionEn ==
    (http.endpoint = "translations" /\ http.pc = "done" /\ http.status # 401)
    => /\ http.body.language = "en"
       /\ http.body.upload = "empty" => http.status = 400 /\ http.decode = <<>>
       /\ http.body.upload # "empty" => http.decode \in DecodeRuns(http.body.upload)
       /\ ~Decoded(http.decode) => http.status = 400 /\ http.calls = <<>>
       /\ Decoded(http.decode) =>
             /\ http.calls = <<[NoCall EXCEPT !.op = "transcribe_audio"]>>
             /\ http.status \in {200, 500}
             /\ http.status = 200 =>
                   http.out = TranscriptionOut(http.body.response_format, "en", http.answer)

\* C27 witness: a translation has been answered in the verbose format.
C27_Witness ==
    /\ http.endpoint = "translations" /\ http.pc = "done" /\ http.status = 200
    /\ http.out.kind = "verbose_json" /\ http.out.language = "en"

\* the items of a list input that stand for a message
KeptItems(items) == SelectSeq(items, LAMBDA i : i.kind \in {"message", "input_text"})

\* C28: /v1/chat/completions gives service.chat the messages of the payload;
\* /v1/responses gives it, for a string input, one user message with that
\* string and, for a list input, one message per role/content item and one
\* user message per input_text part, in the order of the input; either
\* endpoint makes that one call and no other.
C28_ResponsesSameMessages ==
    (http.endpoint \in {"chat_completions", "responses"} /\ http.calls # <<>>)
    => /\ Len(http.calls) = 1 /\ http.calls[1].op = "chat"
       /\ LET M == http.calls[1].messages
              input == http.body.input
          IN /\ http.endpoint = "chat_completions" => M = http.body.messages
             /\ (http.endpoint = "responses" /\ http.body.messages = <<>>) =>
                   /\ input.kind = "str" =>
                         M = <<[role |-> "user", content |-> Str(input.text)]>>
                   /\ input.kind = "list" =>
                         LET kept == KeptItems(input.items) IN
                         /\ Len(M) = Len(kept)
                         /\ \A i \in 1..Len(kept) :
                               /\ M[i].content = kept[i].content
                               /\ M[i].role = IF kept[i].kind = "message"
                                              THEN kept[i].role ELSE "user"

\* C28 witness: a list of input_text parts has been passed on as two user
\* messages.
C28_Witness ==
    /\ http.endpoint = "responses" /\ http.pc = "done" /\ http.status = 200
    /\ http.calls[1].messages = <<[role |-> "user", content |-> Str(<<"a">>)],
                                  [role |-> "user", content |-> Str(<<"b">>)]>>

\* str.strip() stated by positions: the part of s from its first to its last
\* character that is not whitespace
Trimmed(s) ==
    LET ink == {k \in 1..Len(s) : s[k] \notin Space}
    IN IF ink = {} THEN <<>>
       ELSE SubSeq(s, CHOOSE k \in ink : \A j \in ink : k <= j,
                      CHOOSE k \in ink : \A j \in ink : k >= j)

\* the text parts of a part list: strings and parts of type text, input_text
\* or output_text
IsTextPart(part) ==
    \/ part.kind = "str"
    \/ part.kind = "dict" /\ PartType(part.type) \in {"text", "input_text", "output_text"}

\* the text the claim gives a content
ExpectedText(content) ==
    CASE content.kind \in {"str", "other"} -> Trimmed(content.text)
      [] content.kind = "list" ->
            LET texts == [k \in 1..Len(content.parts) |->
                             IF IsTextPart(content.parts[k])
                             THEN Trimmed(content.parts[k].text) ELSE <<>>]
            IN Trimmed(JoinLines(SelectSeq(texts, LAMBDA x : x # <<>>)))
      [] OTHER -> <<>>

\* C29: the normalized messages are, in input order, the messages whose
\* content gives a non-empty text, each with that text (string content
\* trimmed; of a part list the trimmed texts of its text, input_text and
\* output_text parts joined with newlines); the utterance is the content of
\* the last normalized message with role user, empty if there is none.
C29_NormalizeAndLatest ==
    pure.fn \in {"normalized", "latest"} =>
        LET kept == SelectSeq(pure.messages, LAMBDA m : ExpectedText(m.content) # <<>>)
            N == pure.normalized
            users == {i \in 1..Len(N) : N[i].role = "user"}
        IN /\ Len(N) = Len(kept)
           /\ \A i \in 1..Len(kept) :
                 /\ N[i].content = ExpectedText(kept[i].content)
                 /\ kept[i].role \in {"user", "assistant"} => N[i].role = kept[i].role
           /\ pure.fn = "latest" =>
                 /\ users = {} => pure.utterance = <<>>
                 /\ users # {} =>
                       pure.utterance = N[CHOOSE i \in users : \A j \in users : i >= j].content

\* C29 witness: of a user message with a part list and an assistant message,
\* the first has given the utterance, its text parts joined.
C29_Witness ==
    /\ pure.fn = "latest" /\ Len(pure.messages) = 2 /\ Len(pure.normalized) = 2
    /\ pure.messages[1].content.kind = "list" /\ pure.normalized[2].role = "assistant"
    /\ pure.utterance = <<"a", "nl", "b">>

\* what the claim gives for each utterance of the command set
ExpectedIntent(text) ==
    CASE text = <<"play", "a">> -> IntentDict("play_song", << <<"a">> >>)
      [] text = <<"PLAY", "a", "b">> -> IntentDict("play_song", << <<"a", "b">> >>)
      [] text = <<" ", "play", " ", "b", " ">> -> IntentDict("play_song", << <<"b">> >>)
      [] text \in {<<"stop">>, <<" ", "STOP", " ">>, <<"pause">>, <<"halt">>} ->
            IntentDict("pause", <<>>)
      [] text \in {<<"skip">>, <<" ", "skip">>} -> IntentDict("skip", <<>>)
      [] text \in {<<"resume">>, <<" ", "resume">>} -> IntentDict("resume", <<>>)
      [] text \in {<<"what", "time", "is", "it">>, <<"whats", "the", "time">>} ->
            IntentDict("get_time", <<>>)
      [] text = <<"start", "timer", "a", "b">> -> IntentDict("start_countdown", << <<"a", "b">> >>)
      [] text \in {<<"set", "timer", "for", "b">>, <<"start", "a", "timer", "b", "please">>} ->
            IntentDict("start_countdown", << <<"b">> >>)
      [] text \in {<<"get", "timers">>, <<"get", "timer">>} -> IntentDict("list_timers", <<>>)
      [] OTHER -> Echo(text)

\* C30: catchAll gives every utterance of the command set its intent, in
\* any case and with surrounding whitespace, and gives back every other
\* text as it was.
C30_CatchAllCommands ==
    pure.fn = "caught" => pure.caught = ExpectedIntent(pure.text)

\* C30 witness: a text with surrounding blanks that is no command has been
\* given back with its blanks.
C30_Witness ==
    /\ pure.fn = "caught" /\ pure.text = <<" ", "a", " ">>
    /\ pure.caught = Echo(<<" ", "a", " ">>)

\* the registrations made under the name n, and those that gave n as alias
NamedRegs(n) == {i \in 1..Len(pure.registry.regs) : pure.registry.regs[i].name = n}
AliasRegs(n) == {i \in 1..Len(pure.registry.regs) : n \in pure.registry.regs[i].aliases}

\* C31: after any register_tool calls, get_tool finds a tool for every
\* registered name and alias, execute_tool on a registered name gives the
\* result of the function (last) registered under that name, called with the
\* given positional or keyword arguments, and execute_tool on a name never
\* registered raises ValueError.
C31_RegistryLookups ==
    /\ \A n \in DOMAIN pure.registry.tools :
          (NamedRegs(n) # {} \/ AliasRegs(n) # {}) => get_tool(pure.registry, n) # None
    /\ pure.fn = "executed" =>
          LET n == pure.registry.asked
              last == CHOOSE i \in NamedRegs(n) : \A j \in NamedRegs(n) : i >= j
          IN /\ NamedRegs(n) # {} =>
                   /\ pure.registry.out.fn = pure.registry.regs[last].func
                   /\ pure.registry.out.by \in {"args", "kwargs"}
             /\ (NamedRegs(n) = {} /\ AliasRegs(n) # {}) =>
                   pure.registry.out.fn \in {pure.registry.regs[i].func :
                                               i \in 1..Len(pure.registry.regs)}
             /\ (NamedRegs(n) = {} /\ AliasRegs(n) = {}) =>
                   pure.registry.out.fn = "ValueError"

\* C31 witness: a tool registered under a default name with an alias has
\* been executed through the alias after a second registration.
C31_Witness ==
    /\ pure.fn = "executed" /\ Len(pure.registry.regs) = 2
    /\ pure.registry.regs[1] = [func |-> "g", name |-> "g", aliases |-> {"x"}]
    /\ pure.registry.regs[2].name = "y"
    /\ pure.registry.asked = "x" /\ pure.registry.out = [fn |-> "g", by |-> "kwargs"]

\* |x| for an integer
AbsInt(x) == IF x < 0 THEN -x ELSE x

\* C32: every waveform _ensure_float32_mono gives is one-dimensional
\* float32 with no sample above 1.0 in amplitude (a NaN sample is not held
\* against it), and a one-dimensional waveform whose samples are all within
\* [-1, 1] comes back with the same samples.
C32_MonoPeakBounded ==
    pure.fn = "mono" =>
        LET arr == pure.audio.arr
            mono == pure.audio.mono
        IN /\ mono.ndim = 1 /\ mono.dtype = "float32"
           /\ \A i \in 1..Len(mono.samples) :
                 ~mono.samples[i].nan => AbsInt(mono.samples[i].n) <= mono.samples[i].d
           /\ (arr.ndim = 1 /\ \A i \in 1..Len(arr.frames) :
                                  /\ ~arr.frames[i][1].nan
                                  /\ AbsInt(arr.frames[i][1].n) <= arr.frames[i][1].d)
                 => mono.samples = [i \in 1..Len(arr.frames) |-> arr.frames[i][1]]

\* the integers nearest to n * r / s (two of them when it is a half)
NearestLengths(n, s, r) ==
    {k \in ((n * r) \div s)..((n * r) \div s + 1) : 2 * AbsInt(k * s - n * r) <= s}

\* round(n * r / s), a half rounded to the even neighbour or upwards
RoundedLengths(n, s, r) ==
    {k \in NearestLengths(n, s, r) :
        \/ Cardinality(NearestLengths(n, s, r)) = 1
        \/ k % 2 = 0
        \/ k = (n * r) \div s + 1}

\* C33 as stated: resampling n samples from rate s to rate r gives exactly
\* round(n * r / s) samples, at least 1, gives the waveform back when s = r
\* or n = 0, and the duration changes by at most one output sample.
C33_LengthIsRound ==
    pure.fn = "prepared" =>
        LET n == pure.audio.size
            s == pure.audio.sample_rate
            r == TARGET_SAMPLE_RATE
        IN IF s = r \/ n = 0 THEN pure.audio.prepared = n
           ELSE /\ pure.audio.prepared >= 1
                /\ \E k \in RoundedLengths(n, s, r) : pure.audio.prepared = Max2(1, k)
                /\ AbsInt(pure.audio.prepared * s - n * r) <= s

\* C33: resampling n samples from rate s to rate r gives an integer nearest
\* to n * r / s (either neighbour when that is exactly a half), at least 1,
\* gives the waveform back when s = r or n = 0, and the duration changes by
\* at most one output sample.
C33_LengthIsNearest ==
    pure.fn = "prepared" =>
        LET n == pure.audio.size
            s == pure.audio.sample_rate
            r == TARGET_SAMPLE_RATE
        IN IF s = r \/ n = 0 THEN pure.audio.prepared = n
           ELSE /\ pure.audio.prepared >= 1
                /\ \E k \in NearestLengths(n, s, r) : pure.audio.prepared = Max2(1, k)
                /\ AbsInt(pure.audio.prepared * s - n * r) <= s

\* C33 witness: 1003 samples at 32 kHz, exactly 501.5 output samples, have
\* been resampled to 501.
C33_Witness ==
    /\ pure.fn = "prepared" /\ pure.audio.size = 1003
    /\ pure.audio.sample_rate = 32000 /\ pure.audio.prepared = 501

\* positions of synthesize_speech after its _ensure_tts call has returned
AfterEnsureTts == {"tts_clean", "tts_resolve", "tts_acquire", "tts_switch",
                   "tts_switch_active", "tts_synth", "tts_retry"}

\* C34: with the Qwen3 backend, a speech request that names a generic style
\* voice or no voice never attempts a voice switch, successful or failed,
\* and so never changes the active voice or the voice prompt, whatever other
\* requests do between its voice resolution and its acquisition of the TTS
\* inference lock.
C34_GenericNeverSwitches ==
    ~use_tiny_tts =>
        \A t \in Threads :
            (/\ op[t] = "speech"
             /\ VoiceLower(VoiceStrip(Or(loc[t].voice, ""))) \in OPENAI_STYLE_VOICES \cup {""})
                => /\ loc[t].switch = "none"
                   /\ pc[t] # "tts_switch_active"

\* C35: whenever generate_slm runs on the intent route, the grammar is loaded
\* and the system prompt delivered is the loaded intent prompt; whenever the
\* conversation route has injected a system message, it is the loaded
\* persona prompt; and no chat request is past _ensure_slm while another
\* thread is inside the SLM load body.
C35_PromptsLoaded ==
    \A t \in Threads :
        /\ (op[t] = "chat" /\ pc[t] = "intent_gen")
              => /\ grammar # None
                 /\ loc[t].delivered[1].content = <<"intent_prompt">>
        /\ (/\ op[t] = "chat" /\ pc[t] \in {"conv_acquire", "conv_gen"}
            /\ \A i \in 1..Len(loc[t].messages) : loc[t].messages[i].role # "system")
              => loc[t].messages_for_chat[1] = [role |-> "system", content |-> <<"persona">>]
        /\ (op[t] = "chat" /\ pc[t] \in {"intent_acquire", "intent_gen", "conv_build",
                                         "conv_acquire", "conv_gen"})
              => In("SLM", LoadBodyPcs("SLM")) = {}

\* C36: with the Qwen3 backend, no speech request is past _ensure_tts while
\* another thread is inside the TTS load body, and while a synthesize call
\* runs the voice prompt is set and no thread is inside the load body (the
\* warm-up included).
C36_SynthesisAfterLoad ==
    ~use_tiny_tts =>
        \A t \in Threads :
            /\ (op[t] = "speech" /\ pc[t] \in AfterEnsureTts)
                  => In("TTS", LoadBodyPcs("TTS")) = {}
            /\ (op[t] = "speech" /\ pc[t] \in InferencePcs("TTS"))
                  => voice_prompt # None

\* the locks thread t holds
Held(t) == {l \in Locks : lock[l] = t}

\* the thread that holds the lock t is blocked on, 0 when t is not blocked
BlockedBy(t) ==
    LET b == CapOf(op[t])
        awaited == IF pc[t] = "load_acquire" THEN LoadLockOf(b) ELSE InferLockOf(b)
    IN IF pc[t] \in {"load_acquire", "asr_acquire", "intent_acquire", "conv_acquire",
                     "tts_acquire"}
       THEN lock[awaited] ELSE 0

\* C37: no thread holds two of the six locks at once, a thread that is about
\* to acquire a lock holds none, and there is no set of threads each of
\* which is blocked on a lock held by a thread of the set.
C37_OneLockNoCycle ==
    /\ \A t \in Threads : Cardinality(Held(t)) <= 1
    /\ \A t \in Threads :
          pc[t] \in {"load_acquire", "asr_acquire", "intent_acquire", "conv_acquire",
                     "tts_acquire"} => Held(t) = {}
    /\ \A S \in SUBSET Threads :
          S # {} => \E t \in S : BlockedBy(t) \notin S

\* C37 witness: a thread that has loaded the TTS backend and released the
\* load lock is inside synthesis holding the inference lock alone, and
\* another speech request is blocked on that lock.
C37_Witness ==
    \E t1, t2 \in Threads :
        /\ pc[t1] = "tts_synth" /\ Held(t1) = {"tts_infer"} /\ loadDone["TTS"] = 1
        /\ pc[t2] = "tts_acquire" /\ BlockedBy(t2) = t1

\* C39: every tool backed by a coroutine hands its answer on as text, also
\* when it is called while an event loop is running, and the pipeline then
\* resolves with that answer (an answer that is not blank and does not carry
\* the marker).
C39_AsyncToolAnswersText ==
    pure.fn = "tool" =>
        /\ pure.tool.ret = [kind |-> "str", text |-> pure.text]
        /\ ModelResolves(pure.text) => pure.tool.answer = pure.text

\* C40: whenever the handler of one request is inside a blocking service
\* call (a load body or an inference call) and another request is waiting to
\* be handled, the handler of that request can start.
C40_HandlersOverlap ==
    \A t \in Threads : \A u \in Threads \ {t} :
        (/\ \E b \in Backends : pc[t] \in LoadBodyPcs(b) \cup InferencePcs(b)
         /\ pc[u] \in {"idle", "done"}
         /\ nreq < MaxRequests)
            => ENABLED Handler(u)

\* C38: under fair scheduling every request that has entered a service
\* method eventually completes, with a result or an error, and a request
\* that has returned or raised holds no lock.
C38_RequestsComplete ==
    /\ [](\A t \in Threads : pc[t] \in {"idle", "done"} => Held(t) = {})
    /\ \A t \in Threads : (pc[t] \notin {"idle", "done"}) ~> (pc[t] = "done")

\* C38 witness: a speech request has failed inside the TTS load, a later
\* speech request has completed with audio, and every lock is free.
C38_Witness ==
    \E t1, t2 \in Threads :
        /\ op[t1] = "speech" /\ pc[t1] = "done" /\ result[t1].via = "LoadError"
        /\ op[t2] = "speech" /\ pc[t2] = "done" /\ result[t2].kind = "audio"
        /\ loadFailed["TTS"] = 1
        /\ \A l \in Locks : lock[l] = 0

====
